---- MODULE Spec2Model ----
(***************************************************************************)
(* Model of the courtroom audio processing repository.                     *)
(*                                                                         *)
(* Samples are fixed-point numbers: the integer v stands for the amplitude *)
(* v / Unit.  A sample is a record [k, v]: k = "fin" for a finite value,   *)
(* "nan" for NaN and "inf" for an infinity whose sign is v.                *)
(*                                                                         *)
(* Specifications:                                                         *)
(*   Spec        run_processor.main -> CourtroomAudioProcessor             *)
(*               .process_all_files -> AudioProcessor.process_audio_file   *)
(*   ScriptSpec  the batch/single-file main of noisegate.py, normalize.py  *)
(*               and process_merged_mp3.py                                 *)
(*   StageSpec   the stage functions applied to one buffer, with an        *)
(*               internal error injected at a chosen point                 *)
(*   MergeSpec   merge_to_mp3.merge_audio_files on a list of files         *)
(*   PipelineSpec  run_pipeline of scripts/merge_then_process.py and of    *)
(*               scripts/process_then_merge.py                             *)
(***************************************************************************)
EXTENDS Integers, Sequences, FiniteSets, TLC

\* ------------------------------------------------------------------ bounds
\* fixed-point resolution: amplitude 1.0 is Unit
Unit == 1000
\* largest number of entries the input directory holds
MaxFiles == 3
\* longest buffer a load produces in the batch specifications
MaxLen == 12
\* extra resolution of the RMS: it is kept in units of 1 / (Unit * RmsK)
RmsK == 4

\* OUTPUT_SAMPLE_RATE = None
NoRate == 0
\* window_size = min(1024, len(audio) // 10)
GateWindowCap == 1024
GateWindowDivisor == 10
\* window_size = min(512, len(audio) // 20) of apply_pre_normalization_gate
PreGateWindowCap == 512
PreGateWindowDivisor == 20

\* ------------------------------------------------------------------ samples
Fin(v) == [k |-> "fin", v |-> v]
NaN == [k |-> "nan", v |-> 0]
PosInf == [k |-> "inf", v |-> 1]
NegInf == [k |-> "inf", v |-> -1]

Abs(x) == IF x < 0 THEN -x ELSE x
Sign(x) == IF x < 0 THEN -1 ELSE IF x > 0 THEN 1 ELSE 0
Min2(a, b) == IF a < b THEN a ELSE b
Max2(a, b) == IF a > b THEN a ELSE b

\* a * num / den rounded toward zero (den > 0)
MulDiv(a, num, den) == Sign(a) * Sign(num) * ((Abs(a) * Abs(num)) \div den)

\* np.isfinite(x)
IsFinite(s) == s.k = "fin"
\* np.isfinite(buffer).all()
AllFinite(buf) == \A i \in 1..Len(buf) : IsFinite(buf[i])

\* np.nan_to_num(audio, nan=0.0, posinf=0.0, neginf=0.0)
nan_to_num(buf) == [i \in 1..Len(buf) |-> IF IsFinite(buf[i]) THEN buf[i] ELSE Fin(0)]

\* floor of the square root, by bisection on [lo, hi]
RECURSIVE SqrtBetween(_, _, _)
SqrtBetween(x, lo, hi) ==
    IF lo >= hi THEN lo
    ELSE LET mid == (lo + hi + 1) \div 2
         IN  IF mid * mid <= x THEN SqrtBetween(x, mid, hi)
             ELSE SqrtBetween(x, lo, mid - 1)
ISqrt(x) == SqrtBetween(x, 0, Min2(x, 46340))

\* x * x for a sample: NaN stays NaN, an infinity squares to +inf
Square(s) == IF s.k = "fin" THEN Fin(s.v * s.v)
             ELSE IF s.k = "nan" THEN NaN ELSE PosInf

\* IEEE sum of two samples
Add(a, b) ==
    IF a.k = "nan" \/ b.k = "nan" THEN NaN
    ELSE IF a.k = "inf" /\ b.k = "inf" THEN (IF a.v = b.v THEN a ELSE NaN)
    ELSE IF a.k = "inf" THEN a
    ELSE IF b.k = "inf" THEN b
    ELSE Fin(a.v + b.v)

RECURSIVE SumFrom(_, _)
SumFrom(buf, i) == IF i > Len(buf) THEN Fin(0) ELSE Add(buf[i], SumFrom(buf, i + 1))
\* np.sum(buffer)
Sum(buf) == SumFrom(buf, 1)

\* sample * (num / den), num >= 0, den > 0: inf * 0 = NaN
Scale(s, num, den) ==
    IF s.k = "fin" THEN Fin(MulDiv(s.v, num, den))
    ELSE IF s.k = "nan" THEN NaN
    ELSE IF num = 0 THEN NaN ELSE s

\* np.clip(x, -m, m): NaN passes through, an infinity is clipped
Clip(s, m) ==
    IF s.k = "fin" THEN Fin(IF s.v > m THEN m ELSE IF s.v < -m THEN -m ELSE s.v)
    ELSE IF s.k = "nan" THEN NaN
    ELSE Fin(s.v * m)

\* float('-inf') as a threshold in dB
NegInfDb == -1000

\* 10 ** (db / 20), in thousandths, for the dB values the configurations use
DbTable(db) ==
    CASE db = NegInfDb -> 0
      [] db = -40 -> 10
      [] db = -35 -> 18
      [] db = -25 -> 56
      [] db = -24 -> 63
      [] db = -20 -> 100
      [] db = 0   -> 1000
      [] db = 2   -> 1259
DbToAmplitude(db) == (DbTable(db) * Unit) \div 1000

\* ------------------------------------------------------------------ buffers
Const(n, v) == [i \in 1..n |-> Fin(v)]
\* a loud alternating burst followed by a quiet tail
Burst(n) == [i \in 1..n |-> Fin(IF 2 * i <= n
                                 THEN (IF i % 2 = 0 THEN Unit \div 2 ELSE -(Unit \div 2))
                                 ELSE 2)]
\* a quiet lead-in followed by a loud alternating burst
Swell(n) == [i \in 1..n |-> Fin(IF 2 * i <= n THEN 2
                                 ELSE (IF i % 2 = 0 THEN Unit \div 2 ELSE -(Unit \div 2)))]
WithAt(buf, j, s) == [i \in 1..Len(buf) |-> IF i = j THEN s ELSE buf[i]]

\* what librosa.load can return
LoadBuffers ==
    { <<>>, Const(3, Unit \div 4), Const(10, 0), Burst(MaxLen),
      WithAt(Burst(MaxLen), 2, NaN), WithAt(Burst(MaxLen), 3, PosInf) }
SampleRates == {1000, 2000}

\* ------------------------------------------------------------------ normalizer
\* np.sqrt(np.mean(audio ** 2)) in units of 1 / (Unit * RmsK); NaN for an empty buffer
Rms(audio) ==
    LET s == Sum([i \in 1..Len(audio) |-> Square(audio[i])])
    IN  IF Len(audio) = 0 THEN NaN
        ELSE IF s.k # "fin" THEN s
        ELSE IF s.v = 0 THEN Fin(0)
        ELSE Fin(Max2(1, ISqrt((s.v * RmsK * RmsK) \div Len(audio))))

RECURSIVE PeakFrom(_, _)
PeakFrom(audio, i) ==
    IF i > Len(audio) THEN 0 ELSE Max2(Abs(audio[i].v), PeakFrom(audio, i + 1))
\* np.max(np.abs(audio)) of a finite buffer
Peak(audio) == PeakFrom(audio, 1)

\* np.clip(audio * (num / den), -m, m)
ScaleAndClip(audio, num, den, m) ==
    [i \in 1..Len(audio) |-> Clip(Scale(audio[i], num, den), m)]

\* lines 195-222 of AudioProcessor.normalize_audio: target is target_amplitude,
\* m is MAX_AUDIO_AMPLITUDE
AudioProcessor_scale(audio, target, m) ==
    LET rms == Rms(audio)
    IN  IF rms.k = "nan" THEN audio
        ELSE IF rms.k = "inf" THEN ScaleAndClip(audio, 0, 1, m)
        ELSE IF rms.v > 0
             THEN LET num == target * RmsK
                      den == rms.v
                      peak == Peak(audio)
                  IN  IF peak * num > m * den
                      THEN \* scale_factor = min(scale_factor, safe_scale_factor)
                           IF num * peak <= m * den
                           THEN ScaleAndClip(audio, num, den, m)
                           ELSE ScaleAndClip(audio, m, peak, m)
                      ELSE ScaleAndClip(audio, num, den, m)
             ELSE audio

\* AudioProcessor.normalize_audio. fault = 1: an error before audio is rebound
\* (line 187); fault = 2: an error after line 189; the handler returns `audio`
AudioProcessor_normalize_audio(audio, cfg, fault) ==
    IF ~cfg.ENABLE_NORMALIZATION THEN audio
    ELSE IF fault = 1 THEN audio
    ELSE LET cleaned == IF cfg.VALIDATE_AUDIO_OUTPUT /\ ~AllFinite(audio)
                        THEN nan_to_num(audio) ELSE audio
         IN  IF fault = 2 THEN cleaned
             ELSE AudioProcessor_scale(cleaned, DbToAmplitude(cfg.NORMALIZATION_TARGET_DB),
                                       cfg.MAX_AUDIO_AMPLITUDE)

\* ------------------------------------------------------------------ binary-ramp gate
\* int(ms * sample_rate / 1000)
MsToSamples(ms, sample_rate) == (ms * sample_rate) \div 1000

\* np.convolve(audio ** 2, np.ones(w) / w, mode='same')[i] times w (1-based i):
\* the sum of the squares in the window centred by numpy's 'same' rule
WindowSum(audio, w, i) ==
    LET lo == Max2(1, i + ((w - 1) \div 2) - (w - 1))
        hi == Min2(Len(audio), i + ((w - 1) \div 2))
    IN  Sum([j \in 1..Max2(0, hi - lo + 1) |-> Square(audio[lo + j - 1])])

\* rms[i] > threshold, rms = sqrt(window mean); a NaN compares false
EnvelopeAbove(audio, w, i, threshold) ==
    LET s == WindowSum(audio, w, i)
    IN  \/ s.k = "inf"
        \/ s.k = "fin" /\ s.v > threshold * threshold * w

\* gate_control = np.zeros_like(audio) has the buffer's dtype, float32 as
\* librosa loads it: the control is kept in units of 2^-30 and every sum is
\* rounded to the 24-bit significand of binary32 (round to nearest, ties to even)
F32One == 2^30

\* the spacing of binary32 values around n units, 0 <= n < 2^31: 2^(e - 23)
\* for n in [2^e, 2^(e+1)), and 1 where the grid of units is coarser
F32Ulp(n) ==
    IF n < 2^24 THEN 1
    ELSE IF n < 2^25 THEN 2
    ELSE IF n < 2^26 THEN 4
    ELSE IF n < 2^27 THEN 8
    ELSE IF n < 2^28 THEN 16
    ELSE IF n < 2^29 THEN 32
    ELSE IF n < 2^30 THEN 64
    ELSE 128

\* the binary32 value nearest to n + fn/fd units (n >= 0, 0 <= fn < fd)
F32Round(n, fn, fd) ==
    LET u == F32Ulp(n)
        r == n % u
        twice == 2 * (r * fd + fn)
        down == n - r
    IN  IF twice < u * fd THEN down
        ELSE IF twice > u * fd THEN down + u
        ELSE IF (down \div u) % 2 = 0 THEN down ELSE down + u

\* 1.0 / samples as a binary32 value (samples >= 1)
F32Step(samples) == F32Round(F32One \div samples, F32One % samples, samples)

\* the attack/release loop; -1 stands for ZeroDivisionError
RECURSIVE GateControlFrom(_, _, _, _, _, _, _)
GateControlFrom(audio, w, threshold, attack_samples, release_samples, i, acc) ==
    IF i > Len(audio) THEN acc
    ELSE LET prev == acc[i - 1]
             next == IF EnvelopeAbove(audio, w, i, threshold)
                     THEN IF prev < F32One
                          THEN IF attack_samples = 0 THEN -1
                               ELSE Min2(F32One, F32Round(prev + F32Step(attack_samples), 0, 1))
                          ELSE F32One
                     ELSE IF prev > 0
                          THEN IF release_samples = 0 THEN -1
                               ELSE IF prev <= F32Step(release_samples) THEN 0
                               ELSE F32Round(prev - F32Step(release_samples), 0, 1)
                          ELSE 0
         IN  IF next = -1 THEN <<-1>>
             ELSE GateControlFrom(audio, w, threshold, attack_samples, release_samples,
                                  i + 1, Append(acc, next))

\* sample * control, the control rounded to 16 fractional bits and the product
\* to the nearest sample unit
GateScale(s, control) ==
    LET c16 == (control + 2^13) \div (2^14)
    IN  IF s.k = "fin" THEN Fin(Sign(s.v) * ((Abs(s.v) * c16 + 2^15) \div (2^16)))
        ELSE IF s.k = "nan" THEN NaN
        ELSE IF control = 0 THEN NaN ELSE s

\* the body of the try block of apply_noise_gate / apply_pre_normalization_gate:
\* cap and divisor give window_size = min(cap, len(audio) // divisor)
BinaryGate(audio, sample_rate, threshold_db, attack_ms, release_ms, cap, divisor) ==
    LET threshold == DbToAmplitude(threshold_db)
        attack_samples == MsToSamples(attack_ms, sample_rate)
        release_samples == MsToSamples(release_ms, sample_rate)
        window_size == Min2(cap, Len(audio) \div divisor)
        control == GateControlFrom(audio, window_size, threshold, attack_samples,
                                   release_samples, 2, <<0>>)
    IN  IF window_size = 0 THEN [raised |-> TRUE, out |-> <<>>, control |-> <<>>]
        ELSE IF control = <<-1>>
             THEN [raised |-> TRUE, out |-> <<>>, control |-> <<>>]
        ELSE [raised |-> FALSE,
              out |-> [i \in 1..Len(audio) |-> GateScale(audio[i], control[i])],
              control |-> control]

\* AudioProcessor.apply_noise_gate; fault: some other error inside the try block
AudioProcessor_apply_noise_gate(audio, sample_rate, cfg, fault) ==
    IF ~cfg.ENABLE_NOISE_GATE THEN audio
    ELSE LET g == BinaryGate(audio, sample_rate, cfg.NOISE_GATE_THRESHOLD_DB,
                             cfg.NOISE_GATE_ATTACK_MS, cfg.NOISE_GATE_RELEASE_MS,
                             GateWindowCap, GateWindowDivisor)
         IN  IF fault \/ g.raised THEN audio ELSE g.out

\* AudioProcessor.apply_pre_normalization_gate: it has no enable flag of its own
AudioProcessor_apply_pre_normalization_gate(audio, sample_rate, cfg, fault) ==
    LET g == BinaryGate(audio, sample_rate, cfg.PRE_GATE_THRESHOLD_DB,
                        cfg.PRE_GATE_ATTACK_MS, cfg.PRE_GATE_RELEASE_MS,
                        PreGateWindowCap, PreGateWindowDivisor)
    IN  IF fault \/ g.raised THEN audio ELSE g.out

\* ------------------------------------------------------------------ denoiser
\* what an external denoiser can do with a buffer: raise, or return a buffer
Halved(audio) == [i \in 1..Len(audio) |-> Scale(audio[i], 1, 2)]
Poisoned(audio) == [i \in 1..Len(audio) |-> IF i = 1 THEN NaN ELSE audio[i]]
DenoiserOutcomes(audio) ==
    {[raised |-> TRUE, out |-> <<>>]} \cup
    {[raised |-> FALSE, out |-> b] : b \in {Halved(audio), Poisoned(audio)}}

\* faulty variant: the fallback output is returned without the finiteness check
apply_fallback_noise_reduction_unvalidated(audio, cfg, fb) ==
    IF fb.raised THEN [result |-> audio, calls |-> <<"fallback">>]
    ELSE [result |-> fb.out, calls |-> <<"fallback">>]

\* AudioProcessor._apply_fallback_noise_reduction; fb is what nr.reduce_noise does
apply_fallback_noise_reduction(audio, cfg, fb) ==
    IF fb.raised THEN [result |-> audio, calls |-> <<"fallback">>]
    ELSE IF cfg.VALIDATE_AUDIO_OUTPUT /\ ~AllFinite(fb.out)
         THEN [result |-> audio, calls |-> <<"fallback">>]
    ELSE [result |-> fb.out, calls |-> <<"fallback">>]

\* AudioProcessor.apply_noise_reduction; pr is what the TorchGate pass (lines
\* 69-102) does, fb what the spectral fallback does if it is called
apply_noise_reduction(audio, cfg, pr, fb) ==
    IF pr.raised
    THEN LET f == apply_fallback_noise_reduction(audio, cfg, fb)
         IN  [result |-> f.result, calls |-> <<"primary">> \o f.calls]
    ELSE IF cfg.VALIDATE_AUDIO_OUTPUT /\ ~AllFinite(pr.out)
         THEN LET f == apply_fallback_noise_reduction(audio, cfg, fb)
              IN  [result |-> f.result, calls |-> <<"primary">> \o f.calls]
    ELSE [result |-> pr.out, calls |-> <<"primary">>]

\* ------------------------------------------------------------------ noisegate.py
\* IEEE arithmetic on samples
Neg(a) == IF a.k = "fin" THEN Fin(-a.v) ELSE IF a.k = "nan" THEN NaN
          ELSE [k |-> "inf", v |-> -a.v]
Sub(a, b) == Add(a, Neg(b))
\* a < b; a NaN compares false
Less(a, b) ==
    IF a.k = "nan" \/ b.k = "nan" THEN FALSE
    ELSE IF a.k = "inf" THEN a.v < 0 /\ ~(b.k = "inf" /\ b.v < 0)
    ELSE IF b.k = "inf" THEN b.v > 0
    ELSE a.v < b.v
\* numpy scalar / int: x / 0 is an infinity, 0 / 0 is NaN (a warning, no exception)
DivInt(a, n) ==
    IF a.k = "nan" THEN NaN
    ELSE IF a.k = "inf" THEN a
    ELSE IF n = 0 THEN (IF a.v = 0 THEN NaN ELSE [k |-> "inf", v |-> Sign(a.v)])
    ELSE Fin(MulDiv(a.v, 1, n))
\* sample * gain, the gain a sample in units of 1 / Unit
MulGain(a, g) ==
    IF a.k = "nan" \/ g.k = "nan" THEN NaN
    ELSE IF a.k = "fin" /\ g.k = "fin" THEN Fin(MulDiv(a.v, g.v, Unit))
    ELSE IF (a.k = "fin" /\ a.v = 0) \/ (g.k = "fin" /\ g.v = 0) THEN NaN
    ELSE [k |-> "inf", v |-> Sign(a.v) * Sign(g.v)]

\* g ** r for a gain g in units of 1 / Unit
RECURSIVE PowFix(_, _)
PowFix(g, r) == IF r = 0 THEN Unit ELSE (PowFix(g, r - 1) * g) \div Unit
\* the largest g in lo..hi with g ** r <= e / t
RECURSIVE RootBetween(_, _, _, _, _)
RootBetween(e, t, r, lo, hi) ==
    IF lo >= hi THEN lo
    ELSE LET mid == (lo + hi + 1) \div 2
         IN  IF PowFix(mid, r) * t <= e * Unit THEN RootBetween(e, t, r, mid, hi)
             ELSE RootBetween(e, t, r, lo, mid - 1)
\* (e / t) ** (1 / r) for 0 <= e < t, in units of 1 / Unit
RatioRoot(e, t, r) == RootBetween(e, t, r, 0, Unit)

\* faulty variant: the comparison of line 71 is reversed, the gate closes on
\* the samples above the threshold
TargetGain_reversed(audio, w, i, threshold_amp, ratio) ==
    LET s == WindowSum(audio, w, i)
        above == s.k = "fin" /\ s.v > threshold_amp * threshold_amp * w
    IN  IF ~above THEN Unit
        ELSE IF ratio > 1 THEN RatioRoot(threshold_amp, ISqrt(s.v \div w), ratio)
        ELSE 0

\* gain_reduction[i], lines 68-79: 1 unless rms[i] < threshold_amp
TargetGain(audio, w, i, threshold_amp, ratio) ==
    LET s == WindowSum(audio, w, i)
        below == s.k = "fin" /\ s.v < threshold_amp * threshold_amp * w
    IN  IF ~below THEN Unit
        ELSE IF ratio > 1 THEN RatioRoot(ISqrt(s.v \div w), threshold_amp, ratio)
        ELSE 0

\* faulty variant: the two time constants are exchanged, the gain falls at
\* the release rate and recovers at the attack rate
RECURSIVE SmoothedGainFrom_exchanged(_, _, _, _, _, _, _, _)
SmoothedGainFrom_exchanged(audio, w, threshold_amp, ratio, attack_samples, release_samples, i, acc) ==
    IF i > Len(audio) THEN acc
    ELSE LET prev == acc[i - 1]
             target == Fin(TargetGain(audio, w, i, threshold_amp, ratio))
             next == IF Less(target, prev)
                     THEN Sub(prev, DivInt(Sub(prev, target), release_samples))
                     ELSE Add(prev, DivInt(Sub(target, prev), attack_samples))
         IN  SmoothedGainFrom_exchanged(audio, w, threshold_amp, ratio, attack_samples,
                                        release_samples, i + 1, Append(acc, next))

\* the smoothing loop, lines 82-91; acc holds smoothed_gain[1..i-1]
RECURSIVE SmoothedGainFrom(_, _, _, _, _, _, _, _)
SmoothedGainFrom(audio, w, threshold_amp, ratio, attack_samples, release_samples, i, acc) ==
    IF i > Len(audio) THEN acc
    ELSE LET prev == acc[i - 1]
             target == Fin(TargetGain(audio, w, i, threshold_amp, ratio))
             next == IF Less(target, prev)
                     THEN Sub(prev, DivInt(Sub(prev, target), attack_samples))
                     ELSE Add(prev, DivInt(Sub(target, prev), release_samples))
         IN  SmoothedGainFrom(audio, w, threshold_amp, ratio, attack_samples,
                              release_samples, i + 1, Append(acc, next))

\* whether the try block raises: np.convolve rejects an empty window, line 65
NoiseGateProcessor_raises(audio, fault) ==
    fault \/ Min2(GateWindowCap, Len(audio) \div GateWindowDivisor) = 0

\* the try block of NoiseGateProcessor.apply_noise_gate, lines 56-100;
\* p = [threshold_db, attack_ms, release_ms, ratio]
NoiseGateProcessor_try(audio, sample_rate, p, fault) ==
    LET threshold_amp == DbToAmplitude(p.threshold_db)
        attack_samples == MsToSamples(p.attack_ms, sample_rate)
        release_samples == MsToSamples(p.release_ms, sample_rate)
        window_size == Min2(GateWindowCap, Len(audio) \div GateWindowDivisor)
    IN  IF NoiseGateProcessor_raises(audio, fault)
        THEN [raised |-> TRUE, out |-> <<>>, gain |-> <<>>]
        ELSE LET gain == SmoothedGainFrom(audio, window_size, threshold_amp, p.ratio,
                                          attack_samples, release_samples, 2,
                                          << Fin(Unit) >>)
             IN  [raised |-> FALSE,
                  out |-> [i \in 1..Len(audio) |-> Clip(MulGain(audio[i], gain[i]), Unit)],
                  gain |-> gain]

\* NoiseGateProcessor.apply_noise_gate: the handler returns audio
NoiseGateProcessor_apply_noise_gate(audio, sample_rate, p, fault) ==
    LET t == NoiseGateProcessor_try(audio, sample_rate, p, fault)
    IN  IF t.raised THEN audio ELSE t.out

\* ------------------------------------------------------------------ normalize.py
\* faulty variant: the clipping guard of lines 63-66 is missing, the loudness
\* scale is applied whatever the peak
AudioNormalizer_try_unguarded(audio, target_db, max_amplitude, fault) ==
    LET rms == Rms(audio)
    IN  IF fault THEN [raised |-> TRUE, out |-> <<>>]
        ELSE IF rms.k = "nan" THEN [raised |-> FALSE, out |-> audio]
        ELSE IF rms.k = "inf"
             THEN [raised |-> FALSE, out |-> ScaleAndClip(audio, 0, 1, max_amplitude)]
        ELSE IF rms.v > 0
             THEN [raised |-> FALSE,
                   out |-> ScaleAndClip(audio, DbToAmplitude(target_db) * RmsK, rms.v,
                                        max_amplitude)]
        ELSE [raised |-> FALSE, out |-> audio]

\* the try block of AudioNormalizer.normalize_audio, lines 53-78
AudioNormalizer_try(audio, target_db, max_amplitude, fault) ==
    LET rms == Rms(audio)
    IN  IF fault THEN [raised |-> TRUE, out |-> <<>>]
        ELSE IF rms.k = "nan" THEN [raised |-> FALSE, out |-> audio]
        ELSE IF rms.k = "inf"
             THEN [raised |-> FALSE, out |-> ScaleAndClip(audio, 0, 1, max_amplitude)]
        ELSE IF rms.v > 0
             THEN LET num == DbToAmplitude(target_db) * RmsK
                      den == rms.v
                      peak == Peak(audio)
                  IN  [raised |-> FALSE,
                       out |-> IF peak * num > max_amplitude * den
                               THEN ScaleAndClip(audio, max_amplitude, peak, max_amplitude)
                               ELSE ScaleAndClip(audio, num, den, max_amplitude)]
        ELSE [raised |-> FALSE, out |-> audio]

\* AudioNormalizer.normalize_audio: the handler returns audio
AudioNormalizer_normalize_audio(audio, target_db, max_amplitude, fault) ==
    LET t == AudioNormalizer_try(audio, target_db, max_amplitude, fault)
    IN  IF t.raised THEN audio ELSE t.out

\* ------------------------------------------------------------------ torchgate.py
\* TorchGateProcessor.apply_torchgate; pr is what the TorchGate pass does
apply_torchgate(audio, pr) ==
    IF pr.raised THEN audio
    ELSE IF ~AllFinite(pr.out) THEN audio
    ELSE pr.out

\* ------------------------------------------------------------------ frequency filter
\* what librosa.stft, the mask product and librosa.istft give for a buffer: an
\* error, or a buffer whose length need not be the length of the input
IstftOutcomes(audio) ==
    { [raised |-> TRUE, out |-> <<>>] }
    \cup { [raised |-> FALSE, out |-> b] :
              b \in { <<>>,
                      Halved(SubSeq(audio, 1, Len(audio) - 1)),
                      Halved(audio),
                      Halved(audio) \o << Fin(1), Fin(1) >> } }

\* faulty variant: the short result is not padded (lines 285-286 missing)
FitLength_unpadded(filtered_audio, n) ==
    IF Len(filtered_audio) > n THEN SubSeq(filtered_audio, 1, n) ELSE filtered_audio

\* lines 283-286: cut or zero-pad filtered_audio to n samples
FitLength(filtered_audio, n) ==
    IF Len(filtered_audio) > n THEN SubSeq(filtered_audio, 1, n)
    ELSE filtered_audio \o Const(n - Len(filtered_audio), 0)

\* n_fft of librosa.stft and librosa.fft_frequencies
N_FFT == 2048

\* freq_mask at bin k (freqs[k] = k * sample_rate / n_fft), lines 261-274, in
\* units of 1 / Unit
FreqMask(c, sample_rate, k) ==
    LET low_cutoff_mask == k * sample_rate > c.FREQ_LOW_CUTOFF * N_FFT
        high_cutoff_mask == k * sample_rate < c.FREQ_HIGH_CUTOFF * N_FFT
        speech_mask == /\ k * sample_rate >= c.FREQ_SPEECH_BOOST_LOW * N_FFT
                       /\ k * sample_rate <= c.FREQ_SPEECH_BOOST_HIGH * N_FFT
        boost_factor == DbTable(c.FREQ_SPEECH_BOOST_AMOUNT)
    IN  IF ~(low_cutoff_mask /\ high_cutoff_mask) THEN 0
        ELSE IF speech_mask THEN boost_factor
        ELSE Unit

\* the mask leaves every bin from 0 Hz to the Nyquist frequency as it is
MaskIsIdentity(c, sample_rate) ==
    \A k \in 0..(N_FFT \div 2) : FreqMask(c, sample_rate, k) = Unit

\* what stft, the mask and istft (lines 255-280) can produce: with an
\* identity mask the buffer itself up to the last incomplete hop, otherwise
\* another buffer of some length; or an error
FilterOutcomes(audio, c, sample_rate) ==
    IF MaskIsIdentity(c, sample_rate)
    THEN {[raised |-> TRUE, out |-> <<>>]}
         \cup {[raised |-> FALSE, out |-> b] :
                 b \in {audio, SubSeq(audio, 1, Len(audio) - 1)}}
    ELSE IstftOutcomes(audio)

\* AudioProcessor.apply_frequency_filtering, lines 245-293; ext is what the
\* transform calls of lines 255-280 do
apply_frequency_filtering(audio, c, ext) ==
    IF ~c.ENABLE_FREQUENCY_FILTERING THEN audio
    ELSE IF ext.raised THEN audio
    ELSE FitLength(ext.out, Len(audio))

\* ------------------------------------------------------------------ directory
\* SUPPORTED_FORMATS
SUPPORTED_FORMATS == {".wav", ".mp3", ".m4a", ".flac", ".aac", ".ogg"}
\* str.lower() on the suffixes that occur
Lower(suffix) == IF suffix = ".WAV" THEN ".wav" ELSE suffix

\* the entries an input directory can hold: name is the file name as a
\* sequence of character codes ("10", "2", "1", "3")
DirEntries ==
    { [name |-> <<1, 0>>, suffix |-> ".wav", is_file |-> TRUE],
      [name |-> <<2>>,    suffix |-> ".WAV", is_file |-> TRUE],
      [name |-> <<1>>,    suffix |-> ".mp3", is_file |-> TRUE],
      [name |-> <<3>>,    suffix |-> ".txt", is_file |-> TRUE] }

\* the orders in which iterdir() can yield a directory of at most MaxFiles entries
Listings ==
    UNION { { l \in [1..n -> DirEntries] : \A i, j \in 1..n : i # j => l[i] # l[j] }
            : n \in 0..MaxFiles }

\* string comparison a < b, character by character
RECURSIVE LexLess(_, _)
LexLess(a, b) ==
    IF Len(b) = 0 THEN FALSE
    ELSE IF Len(a) = 0 THEN TRUE
    ELSE IF Head(a) # Head(b) THEN Head(a) < Head(b)
    ELSE LexLess(Tail(a), Tail(b))

\* the loop of get_audio_files: keep the supported files, in iteration order
RECURSIVE FilterAudio(_)
FilterAudio(l) ==
    IF l = <<>> THEN <<>>
    ELSE IF Head(l).is_file /\ Lower(Head(l).suffix) \in SUPPORTED_FORMATS
         THEN <<Head(l)>> \o FilterAudio(Tail(l))
         ELSE FilterAudio(Tail(l))

\* sorted(audio_files)
RECURSIVE Insert(_, _)
Insert(e, l) ==
    IF l = <<>> THEN <<e>>
    ELSE IF LexLess(e.name, Head(l).name) THEN <<e>> \o l
    ELSE <<Head(l)>> \o Insert(e, Tail(l))
RECURSIVE sorted(_)
sorted(l) == IF l = <<>> THEN <<>> ELSE Insert(Head(l), sorted(Tail(l)))

\* src/utils/file_utils.get_audio_files
file_utils_get_audio_files(l) == FilterAudio(l)
\* get_audio_files of noisegate.py, normalize.py and process_merged_mp3.py
script_get_audio_files(l) == sorted(FilterAudio(l))

\* ------------------------------------------------------------------ configuration
\* the flags of the two optional stages are set together, with every other
\* stage enabled
Configs ==
    { c \in [ ENABLE_NORMALIZATION : BOOLEAN,
              VALIDATE_AUDIO_OUTPUT : BOOLEAN,
              ENABLE_NOISE_GATE : BOOLEAN,
              ENABLE_PRE_NORMALIZATION_GATE : BOOLEAN,
              ENABLE_FREQUENCY_FILTERING : BOOLEAN,
              OUTPUT_SAMPLE_RATE : {NoRate} \cup SampleRates,
              NOISE_REDUCTION_STRENGTH : {85, 120},
              NORMALIZATION_TARGET_DB : {-24},
              MAX_AUDIO_AMPLITUDE : {Unit},
              NOISE_GATE_THRESHOLD_DB : {-40},
              NOISE_GATE_ATTACK_MS : {5},
              NOISE_GATE_RELEASE_MS : {100} ] :
        /\ c.ENABLE_PRE_NORMALIZATION_GATE = c.ENABLE_FREQUENCY_FILTERING
        /\ c.ENABLE_FREQUENCY_FILTERING
            => /\ c.ENABLE_NORMALIZATION /\ c.VALIDATE_AUDIO_OUTPUT /\ c.ENABLE_NOISE_GATE
               /\ c.OUTPUT_SAMPLE_RATE = NoRate
               /\ c.NOISE_REDUCTION_STRENGTH = 85 }

\* validate_strength, the strength in hundredths
validate_strength(strength) == 0 <= strength /\ strength <= 100

\* ------------------------------------------------------------------ state
VARIABLES
    cfg,              \* the resolved configuration
    listing,          \* the input directory as iterdir() yields it
    pc,               \* where the program is
    audio_files,      \* process_all_files: the discovered files
    idx,              \* process_all_files: position of the loop (1-based)
    successful,       \* process_all_files: successful
    total,            \* process_all_files: total
    attempted,        \* names of the files handed to the file chain, in order
    results,          \* the value returned for each attempted file
    audio,            \* process_audio_file: audio
    sample_rate,      \* process_audio_file: sample_rate
    normalized_audio, \* process_audio_file: normalized_audio
    gated_audio,      \* process_audio_file: gated_audio
    processed_audio,  \* process_audio_file: processed_audio
    final_audio,      \* process_audio_file: final_audio
    calls,            \* the stage calls made for the current file
    ret,              \* what the file chain returned for the current file
    summary,          \* what the summary reported
    exit_code,        \* the process exit status, -1 while running
    loaded_audio,     \* merge_audio_files: loaded_audio
    writes,           \* merge_audio_files: the sf.write calls made, in order
    cwd,              \* the working directory of the orchestrating process
    fs,               \* what the orchestrators look at on disk
    steps             \* the steps run_pipeline has called, in order

vars == << cfg, listing, pc, audio_files, idx, successful, total, attempted, results,
           audio, sample_rate, normalized_audio, gated_audio, processed_audio,
           final_audio, calls, ret, summary, exit_code, loaded_audio, writes, cwd, fs,
           steps >>

merge_vars == << loaded_audio, writes >>
pipeline_vars == << cwd, fs, steps >>

\* the orchestrators and the merger are not running
NoMerge == loaded_audio = <<>> /\ writes = <<>>
NoPipeline == cwd = "" /\ fs = <<>> /\ steps = <<>>

batch_vars == << audio_files, idx, successful, total, attempted, results >>
file_vars == << audio, sample_rate, normalized_audio, gated_audio, processed_audio,
                final_audio >>

NoSummary == [total |-> -1, succeeded |-> -1, failed |-> -1]
Call(stage, in, out, raised, detail) ==
    [stage |-> stage, in |-> in, out |-> out, raised |-> raised, detail |-> detail]
NoDetail == [calls |-> <<>>, pr |-> [raised |-> FALSE, out |-> <<>>],
             fb |-> [raised |-> FALSE, out |-> <<>>], rate |-> NoRate, error |-> FALSE,
             attack_samples |-> -1, release_samples |-> -1, window_size |-> -1,
             gain |-> <<>>, istft |-> <<>>, control |-> <<>>]

ClearFile ==
    /\ audio' = <<>>
    /\ sample_rate' = NoRate
    /\ normalized_audio' = <<>>
    /\ gated_audio' = <<>>
    /\ processed_audio' = <<>>
    /\ final_audio' = <<>>
    /\ calls' = <<>>
    /\ ret' = FALSE

Init ==
    /\ cfg \in Configs
    /\ listing \in Listings
    /\ pc = "main"
    /\ audio_files = <<>>
    /\ idx = 0
    /\ successful = 0
    /\ total = 0
    /\ attempted = <<>>
    /\ results = <<>>
    /\ audio = <<>>
    /\ sample_rate = NoRate
    /\ normalized_audio = <<>>
    /\ gated_audio = <<>>
    /\ processed_audio = <<>>
    /\ final_audio = <<>>
    /\ calls = <<>>
    /\ ret = FALSE
    /\ summary = NoSummary
    /\ exit_code = -1
    /\ NoMerge /\ NoPipeline

\* ------------------------------------------------------------------ run_processor
\* main, lines 33-46: validate the strength, construct the processor
main_start ==
    /\ pc = "main"
    /\ IF ~validate_strength(cfg.NOISE_REDUCTION_STRENGTH)
       THEN exit_code' = 1 /\ pc' = "exited"
       ELSE \E init_ok \in BOOLEAN :
                IF init_ok THEN exit_code' = exit_code /\ pc' = "process_all_files"
                ELSE exit_code' = 1 /\ pc' = "exited"
    /\ UNCHANGED << merge_vars, pipeline_vars, cfg, listing, batch_vars, file_vars, calls, ret, summary >>

\* process_all_files, lines 78-91
process_all_files_begin ==
    /\ pc = "process_all_files"
    /\ audio_files' = file_utils_get_audio_files(listing)
    /\ IF audio_files' = <<>>
       THEN /\ pc' = "summary"
            /\ UNCHANGED << idx, successful, total >>
       ELSE /\ successful' = 0
            /\ total' = Len(audio_files')
            /\ idx' = 1
            /\ pc' = "load"
    /\ UNCHANGED << merge_vars, pipeline_vars, cfg, listing, attempted, results, file_vars, calls, ret, summary,
                    exit_code >>

\* faulty variant: the handler logs the error and reports success
Failed_reports_success(stage, in) ==
    /\ calls' = Append(calls, [stage |-> stage, in |-> in, out |-> <<>>, raised |-> TRUE,
                               detail |-> NoDetail])
    /\ ret' = TRUE
    /\ pc' = "return"

\* the except clause of process_audio_file, lines 479-482
Failed(stage, in) ==
    /\ calls' = Append(calls, Call(stage, in, <<>>, TRUE, NoDetail))
    /\ ret' = FALSE
    /\ pc' = "return"

\* process_audio_file STEP 1, line 448, reached from the loop at line 100
step_load ==
    /\ pc = "load"
    /\ attempted' = Append(attempted, audio_files[idx].name)
    /\ \/ /\ Failed("load", <<>>)
          /\ UNCHANGED file_vars
       \/ \E b \in LoadBuffers, r \in SampleRates :
             /\ audio' = b
             /\ sample_rate' = r
             /\ calls' = Append(calls, Call("load", <<>>, b, FALSE,
                                            [NoDetail EXCEPT !.rate = r]))
             /\ pc' = "normalize"
             /\ UNCHANGED << normalized_audio, gated_audio, processed_audio,
                             final_audio, ret >>
    /\ UNCHANGED << merge_vars, pipeline_vars, cfg, listing, audio_files, idx, successful, total, results,
                    summary, exit_code >>

\* STEP 2, line 451
step_normalize ==
    /\ pc = "normalize"
    /\ \E fault \in 0..2 :
          normalized_audio' = AudioProcessor_normalize_audio(audio, cfg, fault)
    /\ calls' = Append(calls, Call("normalize", audio, normalized_audio', FALSE, NoDetail))
    /\ pc' = "gate"
    /\ UNCHANGED << merge_vars, pipeline_vars, cfg, listing, batch_vars, audio, sample_rate, gated_audio,
                    processed_audio, final_audio, ret, summary, exit_code >>

\* faulty variant: the gate is applied to the loaded buffer, not to the normalized one
step_gate_on_loaded ==
    /\ pc = "gate"
    /\ IF cfg.ENABLE_NOISE_GATE
       THEN /\ \E fault \in BOOLEAN :
                  gated_audio' = AudioProcessor_apply_noise_gate(audio, sample_rate, cfg,
                                                                fault)
            /\ calls' = Append(calls, [stage |-> "gate", in |-> audio, out |-> gated_audio',
                                       raised |-> FALSE, detail |-> NoDetail])
       ELSE /\ gated_audio' = normalized_audio
            /\ calls' = calls
    /\ pc' = "denoise"
    /\ UNCHANGED << merge_vars, pipeline_vars, cfg, listing, batch_vars, audio, sample_rate, normalized_audio,
                    processed_audio, final_audio, ret, summary, exit_code >>

\* faulty variant: the gate runs whatever ENABLE_NOISE_GATE says
step_gate_unconditional ==
    /\ pc = "gate"
    /\ \E fault \in BOOLEAN :
          gated_audio' = AudioProcessor_apply_noise_gate(normalized_audio, sample_rate,
                                                        [cfg EXCEPT !.ENABLE_NOISE_GATE = TRUE],
                                                        fault)
    /\ calls' = Append(calls, Call("gate", normalized_audio, gated_audio', FALSE, NoDetail))
    /\ pc' = "denoise"
    /\ UNCHANGED << merge_vars, pipeline_vars, cfg, listing, batch_vars, audio, sample_rate, normalized_audio,
                    processed_audio, final_audio, ret, summary, exit_code >>

\* STEP 3, lines 454-458
step_gate ==
    /\ pc = "gate"
    /\ IF cfg.ENABLE_NOISE_GATE
       THEN /\ \E fault \in BOOLEAN :
                  gated_audio' = AudioProcessor_apply_noise_gate(normalized_audio,
                                                                sample_rate, cfg, fault)
            /\ calls' = Append(calls, Call("gate", normalized_audio, gated_audio', FALSE,
                                           NoDetail))
       ELSE /\ gated_audio' = normalized_audio
            /\ calls' = calls
    /\ pc' = "denoise"
    /\ UNCHANGED << merge_vars, pipeline_vars, cfg, listing, batch_vars, audio, sample_rate, normalized_audio,
                    processed_audio, final_audio, ret, summary, exit_code >>

\* STEP 4, line 461
step_denoise ==
    /\ pc = "denoise"
    /\ \E pr \in DenoiserOutcomes(gated_audio), fb \in DenoiserOutcomes(gated_audio) :
          LET d == apply_noise_reduction(gated_audio, cfg, pr, fb)
              used == IF Len(d.calls) > 1 THEN fb ELSE NoDetail.fb
          IN  /\ processed_audio' = d.result
              /\ calls' = Append(calls, Call("denoise", gated_audio, d.result, FALSE,
                    [NoDetail EXCEPT !.calls = d.calls, !.pr = pr, !.fb = used]))
    /\ pc' = "resample"
    /\ UNCHANGED << merge_vars, pipeline_vars, cfg, listing, batch_vars, audio, sample_rate, normalized_audio,
                    gated_audio, final_audio, ret, summary, exit_code >>

\* the methods class AudioProcessor defines
AudioProcessor_methods ==
    { "load_audio", "apply_noise_reduction", "_apply_fallback_noise_reduction",
      "normalize_audio", "apply_frequency_filtering", "apply_pre_normalization_gate",
      "apply_noise_gate", "save_audio", "process_audio_file", "get_audio_duration" }

\* OUTPUT_SAMPLE_RATE is not None and OUTPUT_SAMPLE_RATE != sample_rate, line 465
ResampleNeeded == cfg.OUTPUT_SAMPLE_RATE # NoRate /\ cfg.OUTPUT_SAMPLE_RATE # sample_rate

\* STEP 5, lines 464-469: self.convert_sample_rate raises AttributeError when
\* the class has no such method
step_resample ==
    /\ pc = "resample"
    /\ IF ResampleNeeded
       THEN IF "convert_sample_rate" \in AudioProcessor_methods
            THEN /\ final_audio' \in {processed_audio, Halved(processed_audio)}
                 /\ sample_rate' = cfg.OUTPUT_SAMPLE_RATE
                 /\ calls' = Append(calls, Call("resample", processed_audio, final_audio',
                                                FALSE, NoDetail))
                 /\ pc' = "save"
                 /\ ret' = ret
            ELSE /\ Failed("resample", processed_audio)
                 /\ UNCHANGED << final_audio, sample_rate >>
       ELSE /\ final_audio' = processed_audio
            /\ pc' = "save"
            /\ UNCHANGED << sample_rate, calls, ret >>
    /\ UNCHANGED << merge_vars, pipeline_vars, cfg, listing, batch_vars, audio, normalized_audio, gated_audio,
                    processed_audio, summary, exit_code >>

\* STEP 6, lines 472-477; save_audio re-raises what sf.write raises
step_save ==
    /\ pc = "save"
    /\ \E write_ok \in BOOLEAN :
          IF write_ok
          THEN /\ calls' = Append(calls, Call("save", final_audio, final_audio, FALSE,
                                              [NoDetail EXCEPT !.rate = sample_rate]))
               /\ ret' = TRUE
               /\ pc' = "return"
          ELSE Failed("save", final_audio)
    /\ UNCHANGED << merge_vars, pipeline_vars, cfg, listing, batch_vars, file_vars, summary, exit_code >>

\* faulty variant: the loop stops at the first file that fails
process_all_files_next_abort ==
    /\ pc = "return"
    /\ results' = Append(results, ret)
    /\ successful' = IF ret THEN successful + 1 ELSE successful
    /\ idx' = idx + 1
    /\ pc' = IF idx < total /\ ret THEN "load" ELSE "summary"
    /\ ClearFile
    /\ UNCHANGED << merge_vars, pipeline_vars, cfg, listing, audio_files, total, attempted, summary, exit_code >>

\* process_all_files, lines 100-103: count the result, go on with the next file
process_all_files_next ==
    /\ pc = "return"
    /\ results' = Append(results, ret)
    /\ successful' = IF ret THEN successful + 1 ELSE successful
    /\ idx' = idx + 1
    /\ pc' = IF idx < total THEN "load" ELSE "summary"
    /\ ClearFile
    /\ UNCHANGED << merge_vars, pipeline_vars, cfg, listing, audio_files, total, attempted, summary, exit_code >>

\* faulty variant: a batch with at least one success exits 0
main_summary_lenient ==
    /\ pc = "summary"
    /\ summary' = [total |-> total, succeeded |-> successful, failed |-> total - successful]
    /\ exit_code' = IF successful > 0 \/ total = 0 THEN 0 ELSE 1
    /\ pc' = "exited"
    /\ UNCHANGED << merge_vars, pipeline_vars, cfg, listing, batch_vars, file_vars, calls, ret >>

\* main, lines 72-87: show_processing_summary and the exit status
main_summary ==
    /\ pc = "summary"
    /\ summary' = [total |-> total, succeeded |-> successful, failed |-> total - successful]
    /\ exit_code' = IF successful = total /\ total > 0 THEN 0
                    ELSE IF total = 0 THEN 0
                    ELSE 1
    /\ pc' = "exited"
    /\ UNCHANGED << merge_vars, pipeline_vars, cfg, listing, batch_vars, file_vars, calls, ret >>

Next ==
    \/ main_start
    \/ process_all_files_begin
    \/ step_load
    \/ step_normalize
    \/ step_gate
    \/ step_denoise
    \/ step_resample
    \/ step_save
    \/ process_all_files_next
    \/ main_summary

Spec == Init /\ [][Next]_vars

\* ------------------------------------------------------------------ stage scripts
\* main of noisegate.py, normalize.py and process_merged_mp3.py
Scripts == { "noisegate", "normalize", "process_merged_mp3" }

\* the arguments and the configuration a script runs under; process_merged_mp3
\* takes no arguments and builds its gate with ratio=10.0
ScriptConfigs ==
    { c \in [ script : Scripts,
              single : BOOLEAN,
              ENABLE_NOISE_GATE : BOOLEAN,
              NOISE_GATE_THRESHOLD_DB : {-35},
              NOISE_GATE_ATTACK_MS : {5},
              NOISE_GATE_RELEASE_MS : {100},
              NOISE_GATE_RATIO : {1, 10},
              NORMALIZATION_TARGET_DB : {-24},
              MAX_AUDIO_AMPLITUDE : {Unit} ] :
        /\ c.script = "process_merged_mp3" => ~c.single /\ c.NOISE_GATE_RATIO = 10
        /\ c.script = "noisegate" => c.ENABLE_NOISE_GATE
        /\ c.script = "normalize" =>
              ~c.ENABLE_NOISE_GATE /\ c.NOISE_GATE_RATIO = 1 }

GateParams(c) ==
    [ threshold_db |-> c.NOISE_GATE_THRESHOLD_DB, attack_ms |-> c.NOISE_GATE_ATTACK_MS,
      release_ms |-> c.NOISE_GATE_RELEASE_MS, ratio |-> c.NOISE_GATE_RATIO ]

\* what load_audio does: it re-raises, or returns a buffer and its rate
LoadOutcomes ==
    { [raised |-> TRUE, out |-> <<>>, rate |-> NoRate] }
    \cup { [raised |-> FALSE, out |-> b, rate |-> r] : b \in LoadBuffers, r \in SampleRates }

\* the load and save ends of a process_file chain around the stage calls
FileChain(ld, stage_calls, write_ok) ==
    IF ld.raised
    THEN [ret |-> FALSE, calls |-> << Call("load", <<>>, <<>>, TRUE, NoDetail) >>]
    ELSE LET last == IF stage_calls = <<>> THEN ld.out
                     ELSE stage_calls[Len(stage_calls)].out
         IN  [ret |-> write_ok,
              calls |-> << Call("load", <<>>, ld.out, FALSE,
                                [NoDetail EXCEPT !.rate = ld.rate]) >>
                        \o stage_calls
                        \o << Call("save", last, IF write_ok THEN last ELSE <<>>, ~write_ok,
                                   [NoDetail EXCEPT !.rate = ld.rate]) >>]

ScriptInit ==
    /\ cfg \in ScriptConfigs
    /\ listing \in Listings
    /\ pc = "script_main"
    /\ audio_files = <<>>
    /\ idx = 0
    /\ successful = 0
    /\ total = 0
    /\ attempted = <<>>
    /\ results = <<>>
    /\ audio = <<>>
    /\ sample_rate = NoRate
    /\ normalized_audio = <<>>
    /\ gated_audio = <<>>
    /\ processed_audio = <<>>
    /\ final_audio = <<>>
    /\ calls = <<>>
    /\ ret = FALSE
    /\ summary = NoSummary
    /\ exit_code = -1
    /\ NoMerge /\ NoPipeline

\* main up to the loop: noisegate.py lines 208-237
script_main ==
    /\ pc = "script_main"
    /\ IF cfg.single
       THEN /\ pc' = "process_file"
            /\ UNCHANGED << audio_files, idx, successful, total, exit_code >>
       ELSE /\ audio_files' = script_get_audio_files(listing)
            /\ IF audio_files' = <<>>
               THEN /\ exit_code' = 0
                    /\ pc' = "exited"
                    /\ UNCHANGED << idx, successful, total >>
               ELSE /\ successful' = 0
                    /\ total' = Len(audio_files')
                    /\ idx' = 1
                    /\ pc' = "process_file"
                    /\ exit_code' = exit_code
    /\ UNCHANGED << merge_vars, pipeline_vars, cfg, listing, attempted, results, file_vars, calls, ret, summary >>

\* what every process_file leaves behind
FileDone(chain) ==
    /\ calls' = chain.calls
    /\ ret' = chain.ret
    /\ final_audio' = IF chain.ret THEN chain.calls[Len(chain.calls)].in ELSE <<>>
    /\ attempted' = IF cfg.single THEN attempted
                    ELSE Append(attempted, audio_files[idx].name)
    /\ pc' = "script_return"
    /\ UNCHANGED << merge_vars, pipeline_vars, cfg, listing, audio_files, idx, successful, total, results, audio,
                    sample_rate, normalized_audio, gated_audio, processed_audio, summary,
                    exit_code >>

\* NoiseGateProcessor.process_file, noisegate.py lines 115-139
NoiseGateProcessor_process_file ==
    /\ pc = "process_file"
    /\ cfg.script = "noisegate"
    /\ \E ld \in LoadOutcomes, fault \in BOOLEAN :
          LET g == NoiseGateProcessor_apply_noise_gate(ld.out, ld.rate, GateParams(cfg),
                                                       fault)
              stage_calls ==
                  << Call("gate", ld.out, g, FALSE,
                          [NoDetail EXCEPT
                              !.error = NoiseGateProcessor_raises(ld.out, fault)]) >>
          IN  \E write_ok \in BOOLEAN : FileDone(FileChain(ld, stage_calls, write_ok))

\* AudioNormalizer.process_file, normalize.py lines 93-117
AudioNormalizer_process_file ==
    /\ pc = "process_file"
    /\ cfg.script = "normalize"
    /\ \E ld \in LoadOutcomes, fault \in BOOLEAN :
          LET n == AudioNormalizer_normalize_audio(ld.out, cfg.NORMALIZATION_TARGET_DB,
                                                   cfg.MAX_AUDIO_AMPLITUDE, fault)
              stage_calls == << Call("normalize", ld.out, n, FALSE,
                                     [NoDetail EXCEPT !.error = fault]) >>
          IN  \E write_ok \in BOOLEAN : FileDone(FileChain(ld, stage_calls, write_ok))

\* SimpleAudioProcessor.process_file, process_merged_mp3.py lines 90-124
SimpleAudioProcessor_process_file ==
    /\ pc = "process_file"
    /\ cfg.script = "process_merged_mp3"
    /\ \E ld \in LoadOutcomes,
          gate_fault \in IF cfg.ENABLE_NOISE_GATE THEN BOOLEAN ELSE {FALSE} :
          LET g == IF cfg.ENABLE_NOISE_GATE
                   THEN NoiseGateProcessor_apply_noise_gate(ld.out, ld.rate,
                                                            GateParams(cfg), gate_fault)
                   ELSE ld.out
              gate_calls ==
                  IF cfg.ENABLE_NOISE_GATE
                  THEN << Call("gate", ld.out, g, FALSE,
                               [NoDetail EXCEPT
                                   !.error = NoiseGateProcessor_raises(ld.out, gate_fault)]) >>
                  ELSE << >>
          IN  \E pr \in DenoiserOutcomes(g), norm_fault \in BOOLEAN :
                 LET d == apply_torchgate(g, pr)
                     n == AudioNormalizer_normalize_audio(d, cfg.NORMALIZATION_TARGET_DB,
                                                          cfg.MAX_AUDIO_AMPLITUDE,
                                                          norm_fault)
                     stage_calls ==
                         gate_calls
                         \o << Call("denoise", g, d, FALSE,
                                    [NoDetail EXCEPT !.calls = << "primary" >>, !.pr = pr]),
                               Call("normalize", d, n, FALSE,
                                    [NoDetail EXCEPT !.error = norm_fault]) >>
                 IN  \E write_ok \in BOOLEAN :
                        FileDone(FileChain(ld, stage_calls, write_ok))

\* the loop of main: noisegate.py lines 239-245
script_next ==
    /\ pc = "script_return"
    /\ ~cfg.single
    /\ results' = Append(results, ret)
    /\ successful' = IF ret THEN successful + 1 ELSE successful
    /\ idx' = idx + 1
    /\ pc' = IF idx < total THEN "process_file" ELSE "script_summary"
    /\ ClearFile
    /\ UNCHANGED << merge_vars, pipeline_vars, cfg, listing, audio_files, total, attempted, summary, exit_code >>

\* single file mode: exit(0 if success else 1), noisegate.py lines 209-211
script_single_exit ==
    /\ pc = "script_return"
    /\ cfg.single
    /\ exit_code' = IF ret THEN 0 ELSE 1
    /\ pc' = "exited"
    /\ UNCHANGED << merge_vars, pipeline_vars, cfg, listing, batch_vars, file_vars, calls, ret, summary >>

\* the summary log lines, after which main returns and the interpreter exits
\* with status 0: noisegate.py lines 247-253
script_summary ==
    /\ pc = "script_summary"
    /\ summary' = [total |-> total, succeeded |-> successful, failed |-> total - successful]
    /\ exit_code' = 0
    /\ pc' = "exited"
    /\ UNCHANGED << merge_vars, pipeline_vars, cfg, listing, batch_vars, file_vars, calls, ret >>

ScriptNext ==
    \/ script_main
    \/ NoiseGateProcessor_process_file
    \/ AudioNormalizer_process_file
    \/ SimpleAudioProcessor_process_file
    \/ script_next
    \/ script_single_exit
    \/ script_summary

ScriptSpec == ScriptInit /\ [][ScriptNext]_vars

\* ------------------------------------------------------------------ stage functions
\* the conditioning stage functions called on their own; how many calls a
\* behaviour makes
MaxStageCalls == 1

\* the settings the configuration families below vary
BaseStageConfig ==
    [ ENABLE_NORMALIZATION |-> TRUE,
      VALIDATE_AUDIO_OUTPUT |-> TRUE,
      ENABLE_NOISE_GATE |-> TRUE,
      ENABLE_FREQUENCY_FILTERING |-> TRUE,
      NORMALIZATION_TARGET_DB |-> -24,
      MAX_AUDIO_AMPLITUDE |-> Unit,
      NOISE_GATE_THRESHOLD_DB |-> -35,
      NOISE_GATE_ATTACK_MS |-> 5,
      NOISE_GATE_RELEASE_MS |-> 5,
      NOISE_GATE_RATIO |-> 1,
      PRE_GATE_THRESHOLD_DB |-> -40,
      PRE_GATE_ATTACK_MS |-> 5,
      PRE_GATE_RELEASE_MS |-> 100,
      FREQ_LOW_CUTOFF |-> 100,
      FREQ_HIGH_CUTOFF |-> 7000,
      FREQ_SPEECH_BOOST_LOW |-> 500,
      FREQ_SPEECH_BOOST_HIGH |-> 3000,
      FREQ_SPEECH_BOOST_AMOUNT |-> 2 ]

GateStageConfigs ==
    { [BaseStageConfig EXCEPT !.NOISE_GATE_THRESHOLD_DB = t, !.NOISE_GATE_ATTACK_MS = a,
                              !.NOISE_GATE_RELEASE_MS = r, !.NOISE_GATE_RATIO = ratio,
                              !.PRE_GATE_ATTACK_MS = a, !.PRE_GATE_RELEASE_MS = r] :
        t \in {-35, NegInfDb}, a \in {0, 1, 5}, r \in {0, 5}, ratio \in {1, 2, 10} }

NormalizerStageConfigs ==
    { [BaseStageConfig EXCEPT !.ENABLE_NORMALIZATION = e, !.VALIDATE_AUDIO_OUTPUT = v,
                              !.NORMALIZATION_TARGET_DB = t, !.MAX_AUDIO_AMPLITUDE = m] :
        e \in BOOLEAN, v \in BOOLEAN, t \in {-24, 0}, m \in {Unit, Unit \div 2} }

FilterStageConfigs ==
    { [BaseStageConfig EXCEPT !.ENABLE_FREQUENCY_FILTERING = e, !.FREQ_LOW_CUTOFF = lo,
                              !.FREQ_HIGH_CUTOFF = hi, !.FREQ_SPEECH_BOOST_AMOUNT = b] :
        e \in BOOLEAN, lo \in {-1, 0, 100}, hi \in {500, 1000, 7000}, b \in {0, 2} }

\* each stage function is called with the configurations that vary the
\* settings it reads
StageConfigs == GateStageConfigs \cup NormalizerStageConfigs \cup FilterStageConfigs

\* the buffers a stage function is handed: those a file can hold, a longer
\* burst, a loud steady one, a quiet steady one, and two whose samples exceed
\* full scale
StageBuffers ==
    LoadBuffers
    \cup { Burst(2 * MaxLen),
           Const(MaxLen, Unit \div 2),
           Const(MaxLen, Unit \div 100),
           Swell(MaxLen),
           [i \in 1..MaxLen |-> Fin(IF i % 2 = 0 THEN (3 * Unit) \div 2
                                    ELSE -((3 * Unit) \div 2))],
           WithAt(Const(MaxLen, (3 * Unit) \div 2), 2, NaN) }

StageInit ==
    /\ cfg \in StageConfigs
    /\ listing = <<>>
    /\ pc = "stage"
    /\ audio_files = <<>>
    /\ idx = 0
    /\ successful = 0
    /\ total = 0
    /\ attempted = <<>>
    /\ results = <<>>
    /\ audio \in StageBuffers
    /\ sample_rate \in SampleRates
    /\ normalized_audio = <<>>
    /\ gated_audio = <<>>
    /\ processed_audio = <<>>
    /\ final_audio = <<>>
    /\ calls = <<>>
    /\ ret = FALSE
    /\ summary = NoSummary
    /\ exit_code = -1
    /\ NoMerge /\ NoPipeline

\* a stage function was called on `audio` and returned `out`; detail holds
\* the locals of the call
StageCalledWith(stage, out, detail) ==
    /\ calls' = Append(calls, Call(stage, audio, out, FALSE, detail))
    /\ audio' = out
    /\ UNCHANGED << merge_vars, pipeline_vars, cfg, listing, pc, batch_vars, sample_rate, normalized_audio,
                    gated_audio, processed_audio, final_audio, ret, summary, exit_code >>

StageCalled(stage, out, error) ==
    StageCalledWith(stage, out, [NoDetail EXCEPT !.error = error])

\* attack_samples, release_samples and window_size as both gates compute them
\* (noisegate.py lines 60-64, processor.py lines 376-380), and the gain the
\* loop produced
GateDetail(in, rate, attack_ms, release_ms, error, gain) ==
    [NoDetail EXCEPT !.error = error,
                     !.attack_samples = MsToSamples(attack_ms, rate),
                     !.release_samples = MsToSamples(release_ms, rate),
                     !.window_size = Min2(GateWindowCap, Len(in) \div GateWindowDivisor),
                     !.gain = gain]

\* NoiseGateProcessor.apply_noise_gate, noisegate.py lines 53-104
stage_NoiseGateProcessor_apply_noise_gate ==
    /\ pc = "stage"
    /\ Len(calls) < MaxStageCalls
    /\ cfg \in GateStageConfigs
    /\ \E fault \in BOOLEAN :
          LET p == GateParams(cfg)
              t == NoiseGateProcessor_try(audio, sample_rate, p, fault)
          IN  StageCalledWith("NoiseGateProcessor.apply_noise_gate",
                              IF t.raised THEN audio ELSE t.out,
                              GateDetail(audio, sample_rate, p.attack_ms, p.release_ms,
                                         t.raised, t.gain))

\* the locals of a binary-ramp gate call, gate_control included
BinaryGateDetail(detail, control) == [detail EXCEPT !.control = control]

\* gate_control of AudioProcessor.apply_noise_gate as fractions of Unit
ControlAsGain(g) == [i \in 1..Len(g.control) |-> Fin((((g.control[i] + 2^13) \div (2^14)) * Unit) \div (2^16))]

\* AudioProcessor.apply_noise_gate, processor.py lines 351-409
stage_AudioProcessor_apply_noise_gate ==
    /\ pc = "stage"
    /\ Len(calls) < MaxStageCalls
    /\ cfg \in GateStageConfigs
    /\ cfg.ENABLE_NOISE_GATE
    /\ \E fault \in BOOLEAN :
          LET g == BinaryGate(audio, sample_rate, cfg.NOISE_GATE_THRESHOLD_DB,
                              cfg.NOISE_GATE_ATTACK_MS, cfg.NOISE_GATE_RELEASE_MS,
                              GateWindowCap, GateWindowDivisor)
          IN  StageCalledWith("AudioProcessor.apply_noise_gate",
                              AudioProcessor_apply_noise_gate(audio, sample_rate, cfg, fault),
                              BinaryGateDetail(
                                  GateDetail(audio, sample_rate, cfg.NOISE_GATE_ATTACK_MS,
                                             cfg.NOISE_GATE_RELEASE_MS, fault \/ g.raised,
                                             IF g.raised THEN <<>> ELSE ControlAsGain(g)),
                                  g.control))

\* AudioProcessor.apply_pre_normalization_gate, processor.py lines 295-349
stage_AudioProcessor_apply_pre_normalization_gate ==
    /\ pc = "stage"
    /\ Len(calls) < MaxStageCalls
    /\ cfg \in GateStageConfigs
    /\ \E fault \in BOOLEAN :
          LET g == BinaryGate(audio, sample_rate, cfg.PRE_GATE_THRESHOLD_DB,
                              cfg.PRE_GATE_ATTACK_MS, cfg.PRE_GATE_RELEASE_MS,
                              PreGateWindowCap, PreGateWindowDivisor)
          IN  StageCalledWith("AudioProcessor.apply_pre_normalization_gate",
                              AudioProcessor_apply_pre_normalization_gate(audio, sample_rate,
                                                                          cfg, fault),
                              [BinaryGateDetail(GateDetail(audio, sample_rate,
                                                           cfg.PRE_GATE_ATTACK_MS,
                                                           cfg.PRE_GATE_RELEASE_MS,
                                                           fault \/ g.raised,
                                                           IF g.raised THEN <<>>
                                                           ELSE ControlAsGain(g)),
                                                g.control)
                                  EXCEPT !.window_size =
                                      Min2(PreGateWindowCap,
                                           Len(audio) \div PreGateWindowDivisor)])

\* AudioNormalizer.normalize_audio, normalize.py lines 50-82
stage_AudioNormalizer_normalize_audio ==
    /\ pc = "stage"
    /\ Len(calls) < MaxStageCalls
    /\ cfg \in NormalizerStageConfigs
    /\ \E fault \in BOOLEAN :
          StageCalled("AudioNormalizer.normalize_audio",
                      AudioNormalizer_normalize_audio(audio, cfg.NORMALIZATION_TARGET_DB,
                                                      cfg.MAX_AUDIO_AMPLITUDE, fault),
                      fault)

\* AudioProcessor.normalize_audio, processor.py lines 166-226
stage_AudioProcessor_normalize_audio ==
    /\ pc = "stage"
    /\ Len(calls) < MaxStageCalls
    /\ cfg \in NormalizerStageConfigs
    /\ \E fault \in 0..2 :
          StageCalled("AudioProcessor.normalize_audio",
                      AudioProcessor_normalize_audio(audio, cfg, fault),
                      cfg.ENABLE_NORMALIZATION /\ fault # 0)

\* AudioProcessor.apply_frequency_filtering, processor.py lines 228-293
stage_AudioProcessor_apply_frequency_filtering ==
    /\ pc = "stage"
    /\ Len(calls) < MaxStageCalls
    /\ cfg \in FilterStageConfigs
    /\ \E ext \in FilterOutcomes(audio, cfg, sample_rate) :
          StageCalledWith("AudioProcessor.apply_frequency_filtering",
                          apply_frequency_filtering(audio, cfg, ext),
                          [NoDetail EXCEPT
                              !.error = cfg.ENABLE_FREQUENCY_FILTERING /\ ext.raised,
                              !.istft = IF cfg.ENABLE_FREQUENCY_FILTERING /\ ~ext.raised
                                        THEN ext.out ELSE <<>>])

StageNext ==
    \/ stage_NoiseGateProcessor_apply_noise_gate
    \/ stage_AudioProcessor_apply_noise_gate
    \/ stage_AudioProcessor_apply_pre_normalization_gate
    \/ stage_AudioNormalizer_normalize_audio
    \/ stage_AudioProcessor_normalize_audio
    \/ stage_AudioProcessor_apply_frequency_filtering

StageSpec == StageInit /\ [][StageNext]_vars

\* ------------------------------------------------------------------ merger
\* merge_to_mp3.py: merge_audio_files called on a list of files

MaxMergeFiles == 3

\* what librosa.load does with a file: it raises, or returns its samples
MergeInputs ==
    {[raised |-> TRUE, out |-> <<>>]}
    \cup {[raised |-> FALSE, out |-> b] :
            b \in {<<>>, Const(1, (3 * Unit) \div 4), Const(2, Unit \div 2)}}

\* load_and_resample_audio: np.array([]) when the load raised
load_and_resample_audio(file) == IF file.raised THEN <<>> ELSE file.out

RECURSIVE MaxLength(_)
\* max(len(audio) for audio in loaded_audio)
MaxLength(loaded) ==
    IF loaded = <<>> THEN 0 ELSE Max2(Len(Head(loaded)), MaxLength(Tail(loaded)))

\* lines 84-105: pad to the longest, sum, scale down if the peak exceeds 1.0
MixDown(loaded) ==
    LET max_length == MaxLength(loaded)
        padded_audio == [i \in 1..Len(loaded) |-> FitLength(loaded[i], max_length)]
        mixed_audio == [j \in 1..max_length |->
                           Sum([i \in 1..Len(loaded) |-> padded_audio[i][j]])]
        max_amplitude == Peak(mixed_audio)
    IN  IF max_amplitude > Unit
        THEN [j \in 1..max_length |-> Scale(mixed_audio[j], Unit, max_amplitude)]
        ELSE mixed_audio

MergeInit ==
    /\ cfg = [script |-> "merge_to_mp3"]
    /\ listing = <<>>
    /\ pc = "merge_audio_files"
    /\ audio_files \in UNION { [1..n -> MergeInputs] : n \in 0..MaxMergeFiles }
    /\ idx = 0
    /\ successful = 0
    /\ total = 0
    /\ attempted = <<>>
    /\ results = <<>>
    /\ audio = <<>>
    /\ sample_rate = NoRate
    /\ normalized_audio = <<>>
    /\ gated_audio = <<>>
    /\ processed_audio = <<>>
    /\ final_audio = <<>>
    /\ calls = <<>>
    /\ ret = FALSE
    /\ summary = NoSummary
    /\ exit_code = -1
    /\ NoMerge /\ NoPipeline

MergeUnchanged ==
    UNCHANGED << pipeline_vars, cfg, listing, audio_files, successful, total, attempted,
                 results, sample_rate, normalized_audio, gated_audio, processed_audio,
                 final_audio, calls, summary, exit_code >>

\* lines 65-69: the empty list
merge_begin ==
    /\ pc = "merge_audio_files"
    /\ IF audio_files = <<>>
       THEN /\ ret' = FALSE
            /\ pc' = "merge_return"
            /\ idx' = idx
       ELSE /\ idx' = 1
            /\ pc' = "merge_load"
            /\ ret' = ret
    /\ UNCHANGED << audio, merge_vars >>
    /\ MergeUnchanged

\* faulty variant: a file that does not load ends the merge
merge_load_failfast ==
    /\ pc = "merge_load"
    /\ LET a == load_and_resample_audio(audio_files[idx])
       IN  IF Len(a) > 0
           THEN /\ loaded_audio' = Append(loaded_audio, a)
                /\ idx' = idx + 1
                /\ pc' = IF idx = Len(audio_files) THEN "merge_mix" ELSE "merge_load"
           ELSE /\ loaded_audio' = loaded_audio
                /\ idx' = idx
                /\ pc' = "merge_return"
    /\ UNCHANGED << audio, writes, ret >>
    /\ MergeUnchanged

\* lines 73-77: one turn of the loading loop
merge_load ==
    /\ pc = "merge_load"
    /\ LET a == load_and_resample_audio(audio_files[idx])
       IN  loaded_audio' = IF Len(a) > 0 THEN Append(loaded_audio, a) ELSE loaded_audio
    /\ idx' = idx + 1
    /\ pc' = IF idx = Len(audio_files) THEN "merge_mix" ELSE "merge_load"
    /\ UNCHANGED << audio, writes, ret >>
    /\ MergeUnchanged

\* lines 79-105: nothing loaded, or the mix
merge_mix ==
    /\ pc = "merge_mix"
    /\ IF loaded_audio = <<>>
       THEN /\ ret' = FALSE
            /\ pc' = "merge_return"
            /\ audio' = audio
       ELSE /\ audio' = MixDown(loaded_audio)
            /\ pc' = "merge_save"
            /\ ret' = ret
    /\ UNCHANGED << idx, merge_vars >>
    /\ MergeUnchanged

\* lines 111-119: sf.write(output_path, ..., format='MP3') succeeds or raises
merge_save_mp3 ==
    /\ pc = "merge_save"
    /\ \E ok \in BOOLEAN :
          /\ writes' = Append(writes, [format |-> "MP3", ok |-> ok, data |-> audio])
          /\ IF ok
             THEN ret' = TRUE /\ pc' = "merge_return"
             ELSE ret' = ret /\ pc' = "merge_fallback"
    /\ UNCHANGED << idx, audio, loaded_audio >>
    /\ MergeUnchanged

\* lines 120-137: the WAV fallback, whose error the outer handler turns into False
merge_save_wav ==
    /\ pc = "merge_fallback"
    /\ \E ok \in BOOLEAN :
          /\ writes' = Append(writes, [format |-> "WAV", ok |-> ok, data |-> audio])
          /\ ret' = ok
    /\ pc' = "merge_return"
    /\ UNCHANGED << idx, audio, loaded_audio >>
    /\ MergeUnchanged

MergeNext ==
    \/ merge_begin
    \/ merge_load
    \/ merge_mix
    \/ merge_save_mp3
    \/ merge_save_wav

MergeSpec == MergeInit /\ [][MergeNext]_vars

\* ------------------------------------------------------------------ orchestrators
\* scripts/merge_then_process.py (AudioPipeline) and scripts/process_then_merge.py
\* (ProcessThenMergePipeline): run_pipeline and the steps it calls

PipelineConfigs ==
    {[pipeline |-> "AudioPipeline", cleanup |-> FALSE]}
    \cup {[pipeline |-> "ProcessThenMergePipeline", cleanup |-> c] : c \in BOOLEAN}

\* the audio files a directory holds when the pipeline starts: none, or
\* what an earlier run left there
Leftovers == {{}, {"stale"}}

PipelineInit ==
    /\ cfg \in PipelineConfigs
    /\ listing = <<>>
    /\ pc = "check_prerequisites"
    /\ audio_files = <<>>
    /\ idx = 0
    /\ successful = 0
    /\ total = 0
    /\ attempted = <<>>
    /\ results = <<>>
    /\ audio = <<>>
    /\ sample_rate = NoRate
    /\ normalized_audio = <<>>
    /\ gated_audio = <<>>
    /\ processed_audio = <<>>
    /\ final_audio = <<>>
    /\ calls = <<>>
    /\ ret = FALSE
    /\ summary = NoSummary
    /\ exit_code = -1
    /\ NoMerge
    /\ cwd = "start"
    /\ fs \in [ source_files : BOOLEAN, scripts : BOOLEAN,
                workingAudio : Leftovers, mergedAudio : Leftovers,
                outputAudio : Leftovers ]
    /\ steps = <<>>

PipelineUnchanged ==
    UNCHANGED << merge_vars, cfg, listing, batch_vars, file_vars, calls, summary,
                 exit_code >>

\* a step returned ok; run_pipeline goes on to next_pc or returns False
StepReturned(name, ok, cwd_on_return, wrote, next_pc) ==
    /\ steps' = Append(steps, [step |-> name, ok |-> ok, cwd_on_call |-> cwd,
                               cwd_on_return |-> cwd_on_return, wrote |-> wrote])
    /\ cwd' = cwd_on_return
    /\ pc' = IF ok THEN next_pc ELSE "pipeline_return"
    /\ ret' = (ok /\ next_pc = "pipeline_return")

\* check_prerequisites: the source directory holds audio files and both
\* scripts exist
check_prerequisites ==
    /\ pc = "check_prerequisites"
    /\ StepReturned("check_prerequisites", fs.source_files /\ fs.scripts, cwd, FALSE,
                    IF cfg.pipeline = "AudioPipeline" THEN "run_merge_script"
                    ELSE "setup_processing_environment")
    /\ fs' = fs
    /\ PipelineUnchanged

\* ProcessThenMergePipeline.setup_processing_environment: a mkdir may raise
setup_processing_environment ==
    /\ pc = "setup_processing_environment"
    /\ \E raised \in BOOLEAN :
          StepReturned("setup_processing_environment", ~raised, cwd, FALSE,
                       "run_individual_processing")
    /\ fs' = fs
    /\ PipelineUnchanged

\* what a step that runs a script can meet: mkdir, os.chdir or
\* subprocess.run raises, or the script runs, exits with returncode and has
\* or has not written an audio file
StepOutcomes(exits) ==
    {[raises |-> r, returncode |-> 1, wrote |-> FALSE] : r \in {"mkdir", "chdir", "run"}}
    \cup {[raises |-> "none", returncode |-> e.returncode, wrote |-> e.wrote] : e \in exits}

\* merge_to_mp3.py exits 0 exactly when main returned True, having written the mix
MergeScriptExits == {[returncode |-> 0, wrote |-> TRUE], [returncode |-> 1, wrote |-> FALSE]}

\* process_merged_mp3.py: main returns None whether or not a file was saved
\* (it can save only if mergedAudio holds a file); an uncaught error exits 1
ProcessScriptExits ==
    {[returncode |-> 0, wrote |-> w] : w \in IF fs.mergedAudio = {} THEN {FALSE} ELSE BOOLEAN}
    \cup {[returncode |-> 1, wrote |-> FALSE]}

\* the script of run_individual_processing, an external program
IndividualScriptExits == [returncode : {0, 1}, wrote : BOOLEAN]

\* faulty variant: run_pipeline goes on whatever the step returned
RunScriptStep_unchecked(name, script_dir, dir, o, next_pc) ==
    LET files == IF o.raises = "none" /\ o.wrote THEN fs[dir] \cup {"fresh"} ELSE fs[dir]
        ok == o.raises = "none" /\ o.returncode = 0 /\ files # {}
    IN  /\ fs' = [fs EXCEPT ![dir] = files]
        /\ steps' = Append(steps, [step |-> name, ok |-> ok, cwd_on_call |-> cwd,
                                   cwd_on_return |-> cwd, wrote |-> FALSE])
        /\ cwd' = cwd
        /\ pc' = next_pc
        /\ ret' = (next_pc = "pipeline_return")

\* the body shared by run_merge_script, run_process_script and
\* run_individual_processing: mkdir, chdir to the script's directory, run the
\* script, chdir back, then returncode == 0 and an audio file in dir
RunScriptStep(name, script_dir, dir, o, next_pc) ==
    LET files == IF o.raises = "none" /\ o.wrote THEN fs[dir] \cup {"fresh"} ELSE fs[dir]
        ok == o.raises = "none" /\ o.returncode = 0 /\ files # {}
    IN  /\ fs' = [fs EXCEPT ![dir] = files]
        /\ StepReturned(name, ok, IF o.raises = "run" THEN script_dir ELSE cwd,
                        o.raises = "none" /\ o.wrote, next_pc)

\* run_merge_script of either pipeline
run_merge_script ==
    /\ pc = "run_merge_script"
    /\ \E o \in StepOutcomes(MergeScriptExits) :
          RunScriptStep("run_merge_script", "mergeToMp3", "mergedAudio", o,
                        IF cfg.pipeline = "AudioPipeline" THEN "run_process_script"
                        ELSE IF cfg.cleanup THEN "cleanup_intermediate_files"
                        ELSE "pipeline_return")
    /\ PipelineUnchanged

\* AudioPipeline.run_process_script
run_process_script ==
    /\ pc = "run_process_script"
    /\ \E o \in StepOutcomes(ProcessScriptExits) :
          RunScriptStep("run_process_script", "processMergedMp3", "outputAudio", o,
                        "pipeline_return")
    /\ PipelineUnchanged

\* ProcessThenMergePipeline.run_individual_processing
run_individual_processing ==
    /\ pc = "run_individual_processing"
    /\ \E o \in StepOutcomes(IndividualScriptExits) :
          RunScriptStep("run_individual_processing", "processMp3", "workingAudio", o,
                        "run_merge_script")
    /\ PipelineUnchanged

\* ProcessThenMergePipeline.cleanup_intermediate_files and the lines of
\* run_pipeline around it: a failure is logged and True is returned
cleanup_intermediate_files ==
    /\ pc = "cleanup_intermediate_files"
    /\ \E raised \in BOOLEAN :
          /\ fs' = IF raised THEN fs ELSE [fs EXCEPT !.workingAudio = {}]
          /\ steps' = Append(steps, [step |-> "cleanup_intermediate_files", ok |-> ~raised,
                                     cwd_on_call |-> cwd, cwd_on_return |-> cwd,
                                     wrote |-> FALSE])
    /\ pc' = "pipeline_return"
    /\ ret' = TRUE
    /\ cwd' = cwd
    /\ PipelineUnchanged

\* main of either script: return 0 if success else 1
pipeline_main ==
    /\ pc = "pipeline_return"
    /\ exit_code' = IF ret THEN 0 ELSE 1
    /\ pc' = "exited"
    /\ UNCHANGED << merge_vars, pipeline_vars, cfg, listing, batch_vars, file_vars, calls,
                    ret, summary >>

PipelineNext ==
    \/ check_prerequisites
    \/ setup_processing_environment
    \/ run_individual_processing
    \/ run_merge_script
    \/ run_process_script
    \/ cleanup_intermediate_files
    \/ pipeline_main

PipelineSpec == PipelineInit /\ [][PipelineNext]_vars

\* ------------------------------------------------------------------ claims on Spec
\* the entries of the directory that are supported audio files
AudioEntryIndexes ==
    { i \in 1..Len(listing) :
        listing[i].is_file /\ Lower(listing[i].suffix) \in SUPPORTED_FORMATS }
CountTrue(seq) == Cardinality({ i \in 1..Len(seq) : seq[i] })
StagesOf(cs) == [i \in 1..Len(cs) |-> cs[i].stage]

\* C1: process_all_files is best effort: when it returns, every discovered
\* file was attempted exactly once (a failed file does not stop the later
\* ones), total is the number of discovered files and successful is the
\* number of files whose chain returned True, so successful <= total.
C1_BestEffort ==
    pc = "summary" =>
        /\ total = Cardinality(AudioEntryIndexes)
        /\ Len(attempted) = total
        /\ Len(results) = total
        /\ \A i \in AudioEntryIndexes :
              Cardinality({ j \in 1..Len(attempted) : attempted[j] = listing[i].name }) = 1
        /\ successful = CountTrue(results)
        /\ successful <= total
\* a batch of three files whose first file failed and whose later files succeeded
C1_Witness ==
    /\ pc = "summary"
    /\ total = 3
    /\ results = << FALSE, TRUE, TRUE >>
    /\ successful = 2

\* C2: in process_audio_file an error raised at a transition moves the file
\* directly to Failed: the raising call is the last call of the chain, the
\* call returns False, no save follows; and every call ends either Succeeded
\* (True, saved exactly once) or Failed (False, after a raised error).
C2_ErrorMovesToFailed ==
    /\ \A i \in 1..Len(calls) :
          calls[i].raised => i = Len(calls) /\ pc = "return" /\ ret = FALSE
    /\ pc = "return" =>
          LET saves == { i \in 1..Len(calls) : calls[i].stage = "save" /\ ~calls[i].raised }
          IN  /\ ret = TRUE => Cardinality(saves) = 1 /\ \A i \in 1..Len(calls) : ~calls[i].raised
              /\ ret = FALSE => calls[Len(calls)].raised /\ saves = {}
    /\ exit_code = -1 \/ pc = "exited"
\* a file whose write failed ended Failed
C2_Witness ==
    /\ pc = "return"
    /\ ret = FALSE
    /\ calls[Len(calls)].stage = "save"
    /\ calls[Len(calls)].raised

\* the stage sequence the configuration prescribes for a file loaded at `rate`
ExpectedStages(rate) ==
    << "load", "normalize" >>
    \o (IF cfg.ENABLE_NOISE_GATE THEN << "gate" >> ELSE << >>)
    \o << "denoise" >>
    \o (IF cfg.OUTPUT_SAMPLE_RATE # NoRate /\ cfg.OUTPUT_SAMPLE_RATE # rate
        THEN << "resample" >> ELSE << >>)
    \o << "save" >>

\* C3: the stages of process_audio_file run in the fixed order load,
\* normalize, main gate, denoise, (resample), save; each stage consumes the
\* output of the stage before it; save is last and happens at most once.
C3_FixedOrder ==
    /\ calls # <<>> =>
          LET exp == ExpectedStages(calls[1].detail.rate)
          IN  /\ Len(calls) <= Len(exp)
              /\ StagesOf(calls) = SubSeq(exp, 1, Len(calls))
    /\ \A i \in 2..Len(calls) : ~calls[i - 1].raised /\ calls[i].in = calls[i - 1].out
    /\ Cardinality({ i \in 1..Len(calls) : calls[i].stage = "save" }) <= 1
    /\ \A i \in 1..Len(calls) : calls[i].stage = "save" => i = Len(calls)
\* a file that went through load, normalize, gate, denoise and save, with the
\* gate changing the buffer
C3_Witness ==
    /\ pc = "return"
    /\ ret = TRUE
    /\ StagesOf(calls) = << "load", "normalize", "gate", "denoise", "save" >>
    /\ calls[3].out # calls[3].in
    /\ calls[2].out # calls[2].in

\* C4 (as claimed): when an output sample rate is configured and differs from
\* the source rate, and neither load nor a stage nor save fails, the file is
\* resampled, saved at the configured rate and ends Succeeded.
C4_ResamplePath ==
    ( /\ pc = "return"
      /\ calls # <<>>
      /\ ~calls[1].raised
      /\ ResampleNeeded
      /\ \A i \in 1..Len(calls) :
            calls[i].stage \in {"load", "normalize", "gate", "denoise", "save"}
                => ~calls[i].raised )
    => /\ ret = TRUE
       /\ calls[Len(calls)].stage = "save"
       /\ calls[Len(calls)].detail.rate = cfg.OUTPUT_SAMPLE_RATE

\* C5 (as claimed): the batch runner attempts the files in lexicographic order
\* of file name, whatever order the directory listing yields.
C5_LexicographicOrder ==
    \A i, j \in 1..Len(attempted) : i < j => LexLess(attempted[i], attempted[j])

\* C6: run_processor.main maps the batch result to the exit status: no input
\* file means no attempt and exit 0; all succeeded exits 0; any failure,
\* also the fully failed batch, exits 1; the summary reports total,
\* succeeded and failed.
C6_ExitStatus ==
    /\ pc = "exited" /\ audio_files # <<>> => summary # NoSummary
    /\ pc = "exited" /\ summary # NoSummary =>
          /\ summary = [total |-> Cardinality(AudioEntryIndexes),
                         succeeded |-> CountTrue(results),
                         failed |-> Cardinality(AudioEntryIndexes) - CountTrue(results)]
          /\ summary.total = 0 => exit_code = 0 /\ attempted = <<>>
          /\ summary.total > 0 /\ summary.succeeded = summary.total => exit_code = 0
          /\ summary.succeeded < summary.total => exit_code = 1
\* a fully failed batch exited with status 1
C6_Witness ==
    /\ pc = "exited"
    /\ summary # NoSummary
    /\ summary.total = 2
    /\ summary.succeeded = 0
    /\ exit_code = 1

\* C8 (as claimed): save is never called with a buffer that holds a NaN or an
\* infinity.
C8_SaveFinite ==
    \A i \in 1..Len(calls) : calls[i].stage = "save" => AllFinite(calls[i].in)

\* C9: apply_noise_reduction never raises; it calls the primary denoiser
\* once and the fallback at most once, only after the primary raised or
\* returned a non-finite buffer; with validation enabled the result is the
\* primary output if finite, else the fallback output if finite, else the
\* input buffer.
C9_FallbackPolicy ==
    \A i \in 1..Len(calls) :
        calls[i].stage = "denoise" =>
            LET d == calls[i]
                pr == d.detail.pr
                fb == d.detail.fb
                pr_good == ~pr.raised /\ AllFinite(pr.out)
            IN  /\ ~d.raised
                /\ d.detail.calls \in { << "primary" >>, << "primary", "fallback" >> }
                /\ Len(d.detail.calls) = 2 => pr.raised \/ ~AllFinite(pr.out)
                /\ cfg.VALIDATE_AUDIO_OUTPUT =>
                      d.out = IF pr_good THEN pr.out
                              ELSE IF ~fb.raised /\ AllFinite(fb.out) THEN fb.out
                              ELSE d.in
                /\ cfg.VALIDATE_AUDIO_OUTPUT /\ ~pr_good => Len(d.detail.calls) = 2
\* both denoisers returned non-finite buffers and the input came back
C9_Witness ==
    \E i \in 1..Len(calls) :
        /\ calls[i].stage = "denoise"
        /\ cfg.VALIDATE_AUDIO_OUTPUT
        /\ calls[i].detail.calls = << "primary", "fallback" >>
        /\ ~calls[i].detail.pr.raised
        /\ ~calls[i].detail.fb.raised
        /\ ~AllFinite(calls[i].detail.fb.out)
        /\ calls[i].out = calls[i].in
        /\ Len(calls[i].in) > 0

\* C20 (as claimed): when the write of the final buffer raised, the file
\* chain wrote again (in an alternate container) before it returned, so a
\* file is not Failed on its first encode error.
C20_SaveRetried ==
    pc = "return" =>
        \A i \in 1..Len(calls) :
            calls[i].stage = "save" /\ calls[i].raised
                => \E j \in (i + 1)..Len(calls) : calls[j].stage = "save"

\* what the stage after the gate was handed, for a denoiser call at position k
\* of the file's calls: the gate's output when the gate ran on the
\* normalizer's output, the normalizer's output itself when no gate ran
GateDecidedBy(k, flag) ==
    IF flag
    THEN /\ k >= 3
         /\ calls[k - 1].stage = "gate"
         /\ calls[k - 2].stage = "normalize"
         /\ calls[k - 1].in = calls[k - 2].out
         /\ calls[k].in = calls[k - 1].out
    ELSE /\ k >= 2
         /\ calls[k - 1].stage = "normalize"
         /\ calls[k].in = calls[k - 1].out
         /\ \A j \in 1..Len(calls) : calls[j].stage # "gate"

GateSkippedReached ==
    /\ ~cfg.ENABLE_NOISE_GATE
    /\ \E k \in 1..Len(calls) :
          /\ calls[k].stage = "denoise"
          /\ calls[k - 1].stage = "normalize"
          /\ Len(calls[k].in) > 0
          /\ calls[k].in = calls[k - 1].out

\* C22 (as claimed): a file that process_audio_file has saved went through
\* the pre-normalization gate before its normalization when
\* ENABLE_PRE_NORMALIZATION_GATE is true, and through the frequency filter
\* before its save when ENABLE_FREQUENCY_FILTERING is true.
C22_OptionalStagesRun ==
    pc = "return" /\ ret =>
        /\ cfg.ENABLE_PRE_NORMALIZATION_GATE
              => \E i, j \in 1..Len(calls) :
                    /\ i < j
                    /\ calls[i].stage = "pre_gate"
                    /\ calls[j].stage = "normalize"
        /\ cfg.ENABLE_FREQUENCY_FILTERING
              => \E i, j \in 1..Len(calls) :
                    /\ i < j
                    /\ calls[i].stage = "filter"
                    /\ calls[j].stage = "save"

\* what the code does: the stage sequence of a saved file is the same
\* whatever the two flags say
OptionalStageFlagsIgnored ==
    pc = "return" /\ ret =>
        \A i \in 1..Len(calls) :
            calls[i].stage \in {"load", "normalize", "gate", "denoise", "resample", "save"}

\* ------------------------------------------------------------------ claims on ScriptSpec
\* C7 (as claimed): in batch mode a stage script whose every file failed ends
\* with a non-zero exit status.
C7_FullyFailedNonZero ==
    ( /\ pc = "exited"
      /\ ~cfg.single
      /\ total > 0
      /\ successful = 0 )
    => exit_code # 0

\* the same for SimpleAudioProcessor.process_file, whose gate comes right
\* after the load: with ENABLE_NOISE_GATE the denoiser is handed the gate's
\* output, without it the loaded buffer
SimpleAudioProcessorGateFlagDecides ==
    cfg.script = "process_merged_mp3" =>
        \A k \in 1..Len(calls) :
            calls[k].stage = "denoise" =>
                IF cfg.ENABLE_NOISE_GATE
                THEN /\ calls[k - 1].stage = "gate"
                     /\ calls[k - 2].stage = "load"
                     /\ calls[k - 1].in = calls[k - 2].out
                     /\ calls[k].in = calls[k - 1].out
                ELSE /\ calls[k - 1].stage = "load"
                     /\ calls[k].in = calls[k - 1].out

\* stage a is never recorded after stage b
StageBefore(a, b) ==
    \A i \in 1..Len(calls), j \in 1..Len(calls) :
        calls[i].stage = a /\ calls[j].stage = b => i < j

\* C26 (as claimed): SimpleAudioProcessor.process_file normalizes before the
\* gate, gates before the denoiser, and saves last.
C26_SimpleProcessorOrder ==
    cfg.script = "process_merged_mp3" =>
        /\ StageBefore("normalize", "gate")
        /\ StageBefore("normalize", "denoise")
        /\ StageBefore("gate", "denoise")
        /\ \A i \in 1..Len(calls) : calls[i].stage = "save" => i = Len(calls)

\* the order the method has: gate, denoiser, normalization, save, each stage
\* handed the buffer the one before it returned
SimpleProcessorOrderInCode ==
    cfg.script = "process_merged_mp3" =>
        /\ StageBefore("load", "gate")
        /\ StageBefore("gate", "denoise")
        /\ StageBefore("denoise", "normalize")
        /\ StageBefore("normalize", "save")
        /\ \A i \in 1..Len(calls) : calls[i].stage = "save" => i = Len(calls)
        /\ \A i \in 2..Len(calls) : calls[i].in = calls[i - 1].out

\* process_file has run with the gate enabled and saved: the buffer was
\* normalized after it had been gated and denoised
NormalizedAfterDenoise ==
    /\ cfg.script = "process_merged_mp3"
    /\ cfg.ENABLE_NOISE_GATE
    /\ ret
    /\ \E i \in 1..Len(calls) :
          /\ i + 3 = Len(calls)
          /\ calls[i].stage = "gate"
          /\ calls[i + 1].stage = "denoise"
          /\ calls[i + 2].stage = "normalize"
          /\ calls[i + 3].stage = "save"

\* ------------------------------------------------------------------ claims on StageSpec
\* C10 (as claimed): a conditioning stage in which a computation raised does
\* not propagate the error and returns exactly the buffer it was given.
C10_StageErrorIsNoOp ==
    \A i \in 1..Len(calls) :
        calls[i].detail.error => ~calls[i].raised /\ calls[i].out = calls[i].in

\* the same property for the standalone gate, the standalone normalizer and
\* the frequency filter only: their handlers return the buffer they were given
StandaloneStageErrorIsNoOp ==
    \A i \in 1..Len(calls) :
        calls[i].stage # "AudioProcessor.normalize_audio" /\ calls[i].detail.error
            => ~calls[i].raised /\ calls[i].out = calls[i].in

GateStages == {"NoiseGateProcessor.apply_noise_gate", "AudioProcessor.apply_noise_gate"}

\* C11 (as claimed): in every gate call attack_samples and release_samples
\* are at least 1, a time of 0 ms having been clamped to one sample.
C11_SamplesAtLeastOne ==
    \A i \in 1..Len(calls) :
        calls[i].stage \in GateStages
            => calls[i].detail.attack_samples >= 1 /\ calls[i].detail.release_samples >= 1

\* C12 (as claimed): the RMS window of a gate call is
\* min(1024, floor(len / 10)) and never below 1, so a buffer shorter than
\* ten samples gets a window of one sample.
C12_WindowAtLeastOne ==
    \A i \in 1..Len(calls) :
        calls[i].stage \in GateStages
            => calls[i].detail.window_size
                  = Max2(1, Min2(GateWindowCap, Len(calls[i].in) \div GateWindowDivisor))

NormalizerStages == {"AudioNormalizer.normalize_audio", "AudioProcessor.normalize_audio"}

\* max(|buffer|) <= m; a NaN maximum compares false
PeakWithin(buffer, m) ==
    \A j \in 1..Len(buffer) : buffer[j].k = "fin" /\ Abs(buffer[j].v) <= m

\* C13 (as claimed): whatever the buffer, the target and the positive
\* maximum amplitude, what a normalizer returns has max(|out|) <= the
\* maximum amplitude, on every return path.
C13_OutputWithinMaximum ==
    \A i \in 1..Len(calls) :
        calls[i].stage \in NormalizerStages
            => PeakWithin(calls[i].out, cfg.MAX_AUDIO_AMPLITUDE)

\* what does hold: the path that scales and clips a finite buffer of
\* positive RMS returns samples within the maximum amplitude
ScaledOutputWithinMaximum ==
    \A i \in 1..Len(calls) :
        ( /\ calls[i].stage \in NormalizerStages
          /\ ~calls[i].detail.error
          /\ calls[i].stage = "AudioProcessor.normalize_audio" => cfg.ENABLE_NORMALIZATION
          /\ AllFinite(calls[i].in)
          /\ Rms(calls[i].in).v > 0 )
            => PeakWithin(calls[i].out, cfg.MAX_AUDIO_AMPLITUDE)

\* a normalizer call that ran its computation on a finite, non-empty buffer
NormalizerRan(i) ==
    /\ calls[i].stage \in NormalizerStages
    /\ ~calls[i].detail.error
    /\ calls[i].stage = "AudioProcessor.normalize_audio" => cfg.ENABLE_NORMALIZATION
    /\ Len(calls[i].in) > 0
    /\ AllFinite(calls[i].in)

\* C14: a normalizer that ran on a finite buffer returns the buffer
\* unchanged when its RMS is 0, and otherwise the buffer times
\* min(target_amplitude / rms, max_amplitude / max(|buffer|)) clipped to
\* +-max_amplitude: the safety bound replaces the loudness scale whenever that
\* scale would push the peak above max_amplitude.
C14_NormalizerResult ==
    \A i \in 1..Len(calls) :
        NormalizerRan(i) =>
            LET in == calls[i].in
                m == cfg.MAX_AUDIO_AMPLITUDE
                rms == Rms(in).v
                target == DbToAmplitude(cfg.NORMALIZATION_TARGET_DB) * RmsK
            IN  IF rms = 0 THEN calls[i].out = in
                ELSE IF target * Peak(in) <= m * rms
                     THEN calls[i].out = ScaleAndClip(in, target, rms, m)
                     ELSE calls[i].out = ScaleAndClip(in, m, Peak(in), m)

\* a normalizer has run on a buffer where the loudness scale would push the
\* peak above max_amplitude, and the safety bound replaced it
C14_Witness ==
    \E i \in 1..Len(calls) :
        /\ NormalizerRan(i)
        /\ Rms(calls[i].in).v > 0
        /\ DbToAmplitude(cfg.NORMALIZATION_TARGET_DB) * RmsK * Peak(calls[i].in)
              > cfg.MAX_AUDIO_AMPLITUDE * Rms(calls[i].in).v
        /\ calls[i].out = ScaleAndClip(calls[i].in, cfg.MAX_AUDIO_AMPLITUDE,
                                       Peak(calls[i].in), cfg.MAX_AUDIO_AMPLITUDE)
        /\ calls[i].out # calls[i].in

\* a normalizer has run on a silent buffer and returned it
C14_SilentWitness ==
    \E i \in 1..Len(calls) :
        NormalizerRan(i) /\ Rms(calls[i].in).v = 0 /\ calls[i].out = calls[i].in

\* C15 (as claimed): with a threshold of -infinity dB the soft-knee gate is
\* a null operation for every buffer, ratio, attack and release: the gain
\* is 1 at every sample and the output equals the input.
C15_NullAtMinusInfinity ==
    \A i \in 1..Len(calls) :
        ( /\ calls[i].stage = "NoiseGateProcessor.apply_noise_gate"
          /\ cfg.NOISE_GATE_THRESHOLD_DB = NegInfDb )
            => /\ calls[i].out = calls[i].in
               /\ \A j \in 1..Len(calls[i].detail.gain) : calls[i].detail.gain[j] = Fin(Unit)

\* what does hold: with positive attack_samples and release_samples and a
\* finite buffer within [-1, 1] the gate at -infinity dB returns its input
NullAtMinusInfinityWithinRange ==
    \A i \in 1..Len(calls) :
        ( /\ calls[i].stage = "NoiseGateProcessor.apply_noise_gate"
          /\ cfg.NOISE_GATE_THRESHOLD_DB = NegInfDb
          /\ calls[i].detail.attack_samples >= 1
          /\ calls[i].detail.release_samples >= 1
          /\ PeakWithin(calls[i].in, Unit) )
            => /\ calls[i].out = calls[i].in
               /\ \A j \in 1..Len(calls[i].detail.gain) : calls[i].detail.gain[j] = Fin(Unit)

\* the gate at -infinity dB with release_samples = 0 and a finite buffer
\* within [-1, 1] returned a buffer that differs from its input
NullAtMinusInfinityBrokenByZeroRelease ==
    \E i \in 1..Len(calls) :
        /\ calls[i].stage = "NoiseGateProcessor.apply_noise_gate"
        /\ cfg.NOISE_GATE_THRESHOLD_DB = NegInfDb
        /\ calls[i].detail.release_samples = 0
        /\ calls[i].detail.attack_samples >= 1
        /\ PeakWithin(calls[i].in, Unit)
        /\ calls[i].out # calls[i].in

\* the gate at -infinity dB with positive attack and release clipped a buffer
\* whose samples exceed full scale
NullAtMinusInfinityBrokenByClip ==
    \E i \in 1..Len(calls) :
        /\ calls[i].stage = "NoiseGateProcessor.apply_noise_gate"
        /\ cfg.NOISE_GATE_THRESHOLD_DB = NegInfDb
        /\ calls[i].detail.release_samples >= 1
        /\ calls[i].detail.attack_samples >= 1
        /\ AllFinite(calls[i].in)
        /\ calls[i].out # calls[i].in

\* a hard-gate call of the soft-knee gate that ran its loop with positive
\* attack_samples and release_samples
HardGateRan(i) ==
    /\ calls[i].stage = "NoiseGateProcessor.apply_noise_gate"
    /\ ~calls[i].detail.error
    /\ cfg.NOISE_GATE_RATIO = 1
    /\ calls[i].detail.attack_samples >= 1
    /\ calls[i].detail.release_samples >= 1
    /\ AllFinite(calls[i].in)

\* rms[j] > threshold_amp at every sample: the threshold is below the
\* minimum of the envelope
ThresholdBelowEnvelope(i) ==
    LET t == DbToAmplitude(cfg.NOISE_GATE_THRESHOLD_DB)
        w == calls[i].detail.window_size
    IN  \A j \in 1..Len(calls[i].in) : WindowSum(calls[i].in, w, j).v > t * t * w

\* rms[j] < threshold_amp at every sample: the threshold is above the
\* maximum of the envelope
ThresholdAboveEnvelope(i) ==
    LET t == DbToAmplitude(cfg.NOISE_GATE_THRESHOLD_DB)
        w == calls[i].detail.window_size
    IN  \A j \in 1..Len(calls[i].in) : WindowSum(calls[i].in, w, j).v < t * t * w

GainInUnitInterval(g) ==
    \A j \in 1..Len(g) : g[j].k = "fin" /\ 0 <= g[j].v /\ g[j].v <= Unit

\* C17 (as claimed): for every buffer, threshold and ratio and every
\* non-negative attack and release time, the gain of a gate call that ran
\* its smoothing loop (either implementation) has the buffer's length and
\* every element of it lies in [0, 1].
C17_GainWithinUnitInterval ==
    \A i \in 1..Len(calls) :
        calls[i].stage \in GateStages /\ ~calls[i].detail.error
            => /\ Len(calls[i].detail.gain) = Len(calls[i].in)
               /\ GainInUnitInterval(calls[i].detail.gain)

\* what does hold: the same for attack_samples and release_samples of at
\* least 1, and for AudioProcessor.apply_noise_gate whatever the times
GainWithinUnitIntervalForPositiveTimes ==
    \A i \in 1..Len(calls) :
        ( /\ calls[i].stage \in GateStages
          /\ ~calls[i].detail.error
          /\ \/ calls[i].stage = "AudioProcessor.apply_noise_gate"
             \/ calls[i].detail.attack_samples >= 1 /\ calls[i].detail.release_samples >= 1 )
            => /\ Len(calls[i].detail.gain) = Len(calls[i].in)
               /\ GainInUnitInterval(calls[i].detail.gain)

\* C18: AudioProcessor.apply_frequency_filtering returns a buffer of exactly
\* the input's length: the disabled path and the error path return the
\* input itself, and otherwise the result of the inverse transform, whatever
\* its length, cut at len(input) or followed by zeros up to len(input).
C18_FilterKeepsLength ==
    \A i \in 1..Len(calls) :
        calls[i].stage = "AudioProcessor.apply_frequency_filtering" =>
            LET n == Len(calls[i].in)
                filtered == calls[i].detail.istft
            IN  /\ Len(calls[i].out) = n
                /\ ~cfg.ENABLE_FREQUENCY_FILTERING \/ calls[i].detail.error
                      => calls[i].out = calls[i].in
                /\ cfg.ENABLE_FREQUENCY_FILTERING /\ ~calls[i].detail.error
                      => \A j \in 1..n :
                            calls[i].out[j] = IF j <= Len(filtered) THEN filtered[j]
                                              ELSE Fin(0)

\* the filter has run and the inverse transform gave fewer samples than the
\* input: the result was padded with zeros to the input's length
C18_Witness ==
    \E i \in 1..Len(calls) :
        /\ calls[i].stage = "AudioProcessor.apply_frequency_filtering"
        /\ cfg.ENABLE_FREQUENCY_FILTERING /\ ~calls[i].detail.error
        /\ 0 < Len(calls[i].detail.istft)
        /\ Len(calls[i].detail.istft) < Len(calls[i].in)
        /\ Len(calls[i].out) = Len(calls[i].in)
        /\ calls[i].out[Len(calls[i].in)] = Fin(0)

\* the filter has run and the inverse transform gave more samples than the
\* input: the result was cut at the input's length
FilterCutReached ==
    \E i \in 1..Len(calls) :
        /\ calls[i].stage = "AudioProcessor.apply_frequency_filtering"
        /\ cfg.ENABLE_FREQUENCY_FILTERING /\ ~calls[i].detail.error
        /\ Len(calls[i].in) > 0
        /\ Len(calls[i].detail.istft) > Len(calls[i].in)
        /\ Len(calls[i].out) = Len(calls[i].in)

\* the filter ran with low_cutoff = 0, high_cutoff = Nyquist and a boost of 0 dB
FilterRanWideOpen(i) ==
    /\ calls[i].stage = "AudioProcessor.apply_frequency_filtering"
    /\ cfg.ENABLE_FREQUENCY_FILTERING
    /\ ~calls[i].detail.error
    /\ cfg.FREQ_LOW_CUTOFF = 0
    /\ 2 * cfg.FREQ_HIGH_CUTOFF = sample_rate
    /\ cfg.FREQ_SPEECH_BOOST_AMOUNT = 0

\* C19 (as claimed): with low_cutoff = 0, high_cutoff = Nyquist and a boost
\* of 0 dB every bin from 0 Hz up to and including the Nyquist bin has mask
\* value 1, and the samples the filter returns are those of the input.
C19_IdentityMask ==
    \A i \in 1..Len(calls) :
        FilterRanWideOpen(i) =>
            /\ MaskIsIdentity(cfg, sample_rate)
            /\ \A j \in 1..Len(calls[i].detail.istft) :
                  j <= Len(calls[i].in) => calls[i].out[j] = calls[i].in[j]

\* what the code does with those settings: the bin at 0 Hz and the Nyquist
\* bin are zeroed, every bin between them has mask value 1
WideOpenMaskZeroesTheEnds ==
    \A i \in 1..Len(calls) :
        FilterRanWideOpen(i) =>
            /\ FreqMask(cfg, sample_rate, 0) = 0
            /\ FreqMask(cfg, sample_rate, N_FFT \div 2) = 0
            /\ \A k \in 1..(N_FFT \div 2 - 1) : FreqMask(cfg, sample_rate, k) = Unit

\* the filter has run with a mask that is the identity (a negative low
\* cutoff, a high cutoff above Nyquist, no boost) and returned the input
IdentityMaskReached ==
    \E i \in 1..Len(calls) :
        /\ calls[i].stage = "AudioProcessor.apply_frequency_filtering"
        /\ cfg.ENABLE_FREQUENCY_FILTERING /\ ~calls[i].detail.error
        /\ MaskIsIdentity(cfg, sample_rate)
        /\ Len(calls[i].in) > 0
        /\ calls[i].out = calls[i].in

\* a call of the soft-knee gate that ran its loop with positive
\* attack_samples and release_samples
SoftGateRan(i) ==
    /\ calls[i].stage = "NoiseGateProcessor.apply_noise_gate"
    /\ ~calls[i].detail.error
    /\ calls[i].detail.attack_samples >= 1
    /\ calls[i].detail.release_samples >= 1

\* rms[j] < threshold_amp for sample j of call i
EnvelopeBelow(i, j) ==
    LET t == DbToAmplitude(cfg.NOISE_GATE_THRESHOLD_DB)
        w == calls[i].detail.window_size
        e == WindowSum(calls[i].in, w, j)
    IN  e.k = "fin" /\ e.v < t * t * w

\* C23: the smoothed gain of NoiseGateProcessor is a causal fold with one
\* scalar state. g[0] = 1; the target is 1 at or above the threshold and, below
\* it, 0 for ratio <= 1 and (envelope / threshold)^(1 / ratio) for ratio > 1;
\* a later g[i] is g[i-1] - (g[i-1] - target[i]) / attack_samples when
\* target[i] < g[i-1] and g[i-1] + (target[i] - g[i-1]) / release_samples
\* otherwise. For attack_samples, release_samples >= 1 the gain lies between
\* g[i-1] and target[i], and while the envelope is below a hard-gate
\* threshold it does not rise and shrinks by the fraction 1 / attack_samples.
C23_CausalFold ==
    \A i \in 1..Len(calls) :
        SoftGateRan(i) =>
            LET in == calls[i].in
                g == calls[i].detail.gain
                a == calls[i].detail.attack_samples
                r == calls[i].detail.release_samples
                w == calls[i].detail.window_size
                target(j) == TargetGain(in, w, j, DbToAmplitude(cfg.NOISE_GATE_THRESHOLD_DB),
                                        cfg.NOISE_GATE_RATIO)
            IN  /\ Len(g) = Len(in)
                /\ g[1] = Fin(Unit)
                /\ \A j \in 1..Len(in) :
                      /\ ~EnvelopeBelow(i, j) => target(j) = Unit
                      /\ EnvelopeBelow(i, j) /\ cfg.NOISE_GATE_RATIO <= 1 => target(j) = 0
                      /\ EnvelopeBelow(i, j) /\ cfg.NOISE_GATE_RATIO > 1
                            => 0 <= target(j) /\ target(j) <= Unit
                /\ \A j \in 2..Len(in) :
                      /\ g[j].k = "fin"
                      /\ g[j].v = IF target(j) < g[j - 1].v
                                  THEN g[j - 1].v - ((g[j - 1].v - target(j)) \div a)
                                  ELSE g[j - 1].v + ((target(j) - g[j - 1].v) \div r)
                      /\ Min2(g[j - 1].v, target(j)) <= g[j].v
                      /\ g[j].v <= Max2(g[j - 1].v, target(j))
                      /\ EnvelopeBelow(i, j) /\ cfg.NOISE_GATE_RATIO <= 1
                            => /\ g[j].v <= g[j - 1].v
                               /\ a * g[j].v <= (a - 1) * g[j - 1].v + a

\* a soft-knee gate ran on a buffer that is quiet and then loud: its gain
\* fell toward a target strictly between 0 and 1 without passing it, and
\* later rose again without passing 1
C23_Witness ==
    \E i \in 1..Len(calls) :
        /\ SoftGateRan(i)
        /\ cfg.NOISE_GATE_RATIO > 1
        /\ calls[i].detail.attack_samples > 1
        /\ calls[i].detail.release_samples > 1
        /\ \E j \in 2..Len(calls[i].in), k \in 3..Len(calls[i].in) :
              /\ j < k
              /\ calls[i].detail.gain[j].v < calls[i].detail.gain[j - 1].v
              /\ calls[i].detail.gain[j].v > 0
              /\ calls[i].detail.gain[k].v > calls[i].detail.gain[k - 1].v
              /\ calls[i].detail.gain[k].v < Unit

BinaryGateStages ==
    {"AudioProcessor.apply_noise_gate", "AudioProcessor.apply_pre_normalization_gate"}

\* call i is a binary-ramp gate whose loop ran to the end
BinaryGateRan(i) ==
    /\ calls[i].stage \in BinaryGateStages
    /\ calls[i].detail.control # <<>>

\* threshold_linear of call i
BinaryGateThreshold(i) ==
    DbToAmplitude(IF calls[i].stage = "AudioProcessor.apply_noise_gate"
                  THEN cfg.NOISE_GATE_THRESHOLD_DB ELSE cfg.PRE_GATE_THRESHOLD_DB)

\* rms[j] > threshold_linear for the n samples that end at j, all of them
\* samples the loop visits (the loop starts at the second sample)
AboveFor(i, j, n) ==
    /\ n >= 1 /\ j - n + 1 >= 2
    /\ \A k \in (j - n + 1)..j :
          EnvelopeAbove(calls[i].in, calls[i].detail.window_size, k, BinaryGateThreshold(i))

\* rms[j] <= threshold_linear (or not comparable) for the n samples that end at j
NotAboveFor(i, j, n) ==
    /\ n >= 1 /\ j - n + 1 >= 2
    /\ \A k \in (j - n + 1)..j :
          ~EnvelopeAbove(calls[i].in, calls[i].detail.window_size, k, BinaryGateThreshold(i))

BinaryRampReachesLimitsOneSampleLater ==
    \A i \in 1..Len(calls) :
        BinaryGateRan(i) =>
            LET control == calls[i].detail.control
                above(j) == EnvelopeAbove(calls[i].in, calls[i].detail.window_size, j,
                                          BinaryGateThreshold(i))
            IN  /\ control[1] = 0
                /\ \A j \in 2..Len(calls[i].in) :
                      /\ 0 <= control[j] /\ control[j] <= F32One
                      /\ above(j) => control[j] >= control[j - 1]
                      /\ above(j) /\ control[j - 1] = F32One => control[j] = F32One
                      /\ ~above(j) => control[j] <= control[j - 1]
                      /\ ~above(j) /\ control[j - 1] = 0 => control[j] = 0
                      /\ AboveFor(i, j, calls[i].detail.attack_samples + 1)
                            => control[j] = F32One
                      /\ NotAboveFor(i, j, calls[i].detail.release_samples + 1)
                            => control[j] = 0

\* a release ramp that started at exactly 1 is still above 0 after
\* release_samples samples, by the rounding error of the float32 sums
RampResidueReached ==
    \E i \in 1..Len(calls) :
        /\ BinaryGateRan(i)
        /\ \E j \in 2..Len(calls[i].in) :
              /\ NotAboveFor(i, j, calls[i].detail.release_samples)
              /\ calls[i].detail.control[j - calls[i].detail.release_samples] = F32One
              /\ calls[i].detail.control[j] > 0
              /\ calls[i].detail.control[j] < 2^10

\* call i of the filter built its mask and transformed the buffer
FilterRan(i) ==
    /\ calls[i].stage = "AudioProcessor.apply_frequency_filtering"
    /\ cfg.ENABLE_FREQUENCY_FILTERING
    /\ ~calls[i].detail.error

\* bin k lies within the closed band [low, high] (Hz)
BinWithin(k, low, high) ==
    /\ k * sample_rate >= low * N_FFT
    /\ k * sample_rate <= high * N_FFT

\* C25 (as claimed): the mask value of a bin is 0 below low_cutoff or above
\* high_cutoff, the boost factor for a pass-band bin inside the speech band
\* and 1 for every other pass-band bin, a bin exactly at a cutoff being a
\* pass-band bin.
C25_MaskByBand ==
    \A i \in 1..Len(calls) :
        FilterRan(i) =>
            \A k \in 0..(N_FFT \div 2) :
                FreqMask(cfg, sample_rate, k)
                    = IF ~BinWithin(k, cfg.FREQ_LOW_CUTOFF, cfg.FREQ_HIGH_CUTOFF) THEN 0
                      ELSE IF BinWithin(k, cfg.FREQ_SPEECH_BOOST_LOW,
                                        cfg.FREQ_SPEECH_BOOST_HIGH)
                           THEN DbTable(cfg.FREQ_SPEECH_BOOST_AMOUNT)
                      ELSE Unit

\* what the mask is for the bins that are not at a cutoff, and what it is at
\* a cutoff: 0, in the speech band or not
MaskByBandOffTheCutoffs ==
    \A i \in 1..Len(calls) :
        FilterRan(i) =>
            \A k \in 0..(N_FFT \div 2) :
                LET at_cutoff == \/ k * sample_rate = cfg.FREQ_LOW_CUTOFF * N_FFT
                                 \/ k * sample_rate = cfg.FREQ_HIGH_CUTOFF * N_FFT
                IN  FreqMask(cfg, sample_rate, k)
                        = IF at_cutoff THEN 0
                          ELSE IF ~BinWithin(k, cfg.FREQ_LOW_CUTOFF, cfg.FREQ_HIGH_CUTOFF)
                               THEN 0
                          ELSE IF BinWithin(k, cfg.FREQ_SPEECH_BOOST_LOW,
                                            cfg.FREQ_SPEECH_BOOST_HIGH)
                               THEN DbTable(cfg.FREQ_SPEECH_BOOST_AMOUNT)
                          ELSE Unit

\* the filter ran with a bin exactly at the high cutoff and inside the
\* speech band, and that bin was zeroed
CutoffBinZeroed ==
    \E i \in 1..Len(calls) :
        /\ FilterRan(i)
        /\ \E k \in 0..(N_FFT \div 2) :
              /\ k * sample_rate = cfg.FREQ_HIGH_CUTOFF * N_FFT
              /\ BinWithin(k, cfg.FREQ_SPEECH_BOOST_LOW, cfg.FREQ_SPEECH_BOOST_HIGH)
              /\ FreqMask(cfg, sample_rate, k) = 0

\* ------------------------------------------------------------------ claims on MergeSpec
RECURSIVE Loadable(_)
\* the buffers of the files that load with at least one sample, in order
Loadable(files) ==
    IF files = <<>> THEN <<>>
    ELSE LET a == load_and_resample_audio(Head(files))
         IN  (IF Len(a) > 0 THEN <<a>> ELSE <<>>) \o Loadable(Tail(files))

\* C27: merge_audio_files skips the files that do not load and merges the
\* rest; it returns False without writing when the list is empty or nothing
\* loads; otherwise it writes the mix as MP3 and, only if that fails, once as
\* WAV, and returns True exactly when the MP3 write or the WAV fallback
\* succeeded.
C27_MergeIsolatesFailures ==
    /\ pc \in {"merge_load", "merge_mix"}
          => loaded_audio = Loadable(SubSeq(audio_files, 1, idx - 1))
    /\ Len(writes) <= 2
    /\ \A i \in 1..Len(writes) :
          /\ writes[i].format = IF i = 1 THEN "MP3" ELSE "WAV"
          /\ i = 2 => ~writes[1].ok
          /\ writes[i].data = MixDown(Loadable(audio_files))
    /\ pc = "merge_return" =>
          IF Loadable(audio_files) = <<>>
          THEN ~ret /\ writes = <<>>
          ELSE /\ Len(writes) >= 1
               /\ ~writes[1].ok => Len(writes) = 2
               /\ ret <=> writes[Len(writes)].ok

\* a merge of three files of which one did not load: the MP3 write failed,
\* the WAV fallback succeeded and True came back
C27_Witness ==
    /\ pc = "merge_return"
    /\ Len(audio_files) = 3
    /\ \E i \in 1..3 : audio_files[i].raised
    /\ Len(loaded_audio) = 2
    /\ Len(writes) = 2
    /\ ~writes[1].ok /\ writes[2].ok
    /\ ret

\* ------------------------------------------------------------------ claims on PipelineSpec
\* the mandatory steps of run_pipeline, in the order of its if statements
PipelineOrder ==
    IF cfg.pipeline = "AudioPipeline"
    THEN << "check_prerequisites", "run_merge_script", "run_process_script" >>
    ELSE << "check_prerequisites", "setup_processing_environment",
            "run_individual_processing", "run_merge_script" >>

\* C28: run_pipeline calls its mandatory steps in order, calls none after one
\* that returned False, and returns True exactly when all of them returned
\* True; in ProcessThenMergePipeline the cleanup is called only after the merge
\* returned True (and cleanup was asked for), and what it returns does not
\* change the True result.
C28_PipelineFailsFast ==
    LET n == Len(PipelineOrder)
    IN  /\ Len(steps) <= n + 1
        /\ \A i \in 1..Len(steps) :
              /\ i <= n => steps[i].step = PipelineOrder[i]
              /\ i > 1 => steps[i - 1].ok
              /\ i = n + 1 => /\ steps[i].step = "cleanup_intermediate_files"
                              /\ cfg.pipeline = "ProcessThenMergePipeline"
                              /\ cfg.cleanup
        /\ pc \in {"pipeline_return", "exited"} =>
              /\ ret <=> (Len(steps) >= n /\ steps[n].ok)
              /\ ret /\ cfg.cleanup => Len(steps) = n + 1

\* ProcessThenMergePipeline returned True although its cleanup failed
C28_Witness ==
    /\ pc = "pipeline_return"
    /\ cfg.pipeline = "ProcessThenMergePipeline"
    /\ Len(steps) = 5
    /\ steps[4].step = "run_merge_script" /\ steps[4].ok
    /\ steps[5].step = "cleanup_intermediate_files" /\ ~steps[5].ok
    /\ ret

\* AudioPipeline stopped at a failed merge: the process step was not called
PipelineStoppedAtMerge ==
    /\ pc = "pipeline_return"
    /\ cfg.pipeline = "AudioPipeline"
    /\ Len(steps) = 2
    /\ ~steps[2].ok
    /\ ~ret

ScriptSteps == {"run_merge_script", "run_process_script", "run_individual_processing"}

\* C29 (as claimed): whenever a step that runs a script returns, True or
\* False, the working directory is the one it was called in.
C29_WorkingDirectoryRestored ==
    \A i \in 1..Len(steps) :
        steps[i].step \in ScriptSteps => steps[i].cwd_on_return = steps[i].cwd_on_call

\* what holds: a step that returns True has restored the working directory
WorkingDirectoryRestoredOnSuccess ==
    \A i \in 1..Len(steps) :
        steps[i].step \in ScriptSteps /\ steps[i].ok
            => steps[i].cwd_on_return = steps[i].cwd_on_call

\* a step returned False and left the process in the script's directory
WorkingDirectoryLeftChanged ==
    \E i \in 1..Len(steps) :
        /\ steps[i].step = "run_merge_script"
        /\ ~steps[i].ok
        /\ steps[i].cwd_on_call = "start"
        /\ steps[i].cwd_on_return = "mergeToMp3"
        /\ cwd = "mergeToMp3"

\* C30 (as claimed): run_process_script returns True only if the process
\* script saved at least one file during this run.
C30_SuccessMeansFreshOutput ==
    \A i \in 1..Len(steps) :
        steps[i].step = "run_process_script" /\ steps[i].ok => steps[i].wrote

\* what holds: after a True from run_process_script outputAudio holds an
\* audio file, of this run or of an earlier one
SuccessMeansSomeOutput ==
    \A i \in 1..Len(steps) :
        steps[i].step = "run_process_script" /\ steps[i].ok => fs.outputAudio # {}

\* run_process_script returned True on the strength of an earlier run's file
StaleOutputAccepted ==
    \E i \in 1..Len(steps) :
        /\ steps[i].step = "run_process_script"
        /\ steps[i].ok
        /\ ~steps[i].wrote
        /\ fs.outputAudio = {"stale"}
        /\ pc = "pipeline_return" /\ ret

====
